---------------------------- MODULE Spec2Model ----------------------------
(* A model of app/irc/manager.py: IRCManager, one connection to one IRC   *)
(* server.  A received line is a sequence of space-separated tokens; a    *)
(* token is a word with or without a leading ':' (the prefix marker and   *)
(* the trailing-parameter marker of the IRC line format).                 *)
EXTENDS Integers, Sequences, FiniteSets, TLC

VARIABLES
    p,                  \* ServerProfile: password, sasl_user, user, nick, channels
    on,                 \* which listener fields (on_status, on_names, ...) are set
    writer,             \* self.writer: "none" before connect(), then "open"; "closed"
                        \* once close() has closed it, "lost" once the connection broke
    stop,               \* self._stop
    debug,              \* self.debug
    monitor,            \* self._monitor
    loop,               \* the read loop task: "none", "running", "stopping", "ended"
    raised,             \* whether the caller's last call raised
    ncalls,             \* how many calls the caller has made
    call,               \* history: the caller's last call, its name and arguments
    tasks,              \* per task: the coroutine it runs, where it stands in it, and
                        \* (history) the places in sent of the lines it has written
    cap_negotiating,    \* self._cap_negotiating
    available_caps,     \* self._available_caps
    requested_caps,     \* self._requested_caps
    active_caps,        \* self._active_caps
    cap_ended,          \* self._cap_ended
    welcome_received,   \* self._welcome_received
    cap_ls_pending,     \* self._cap_ls_pending
    sasl_in_progress,   \* self._sasl_in_progress
    sasl_payload_sent,  \* self._sasl_payload_sent
    batches,            \* self._batches: batch id -> type
    batch_names,        \* self._batch_names: batch id -> ordered (channel, nicks) entries
    whois_buf,          \* self._whois_buf: nick -> field map
    sent,               \* the lines written to the transport, in order
    events,             \* the listener calls made, in order
    line,               \* the line the read loop handled last
    nrecv,              \* how many lines the read loop has handled
    seen,               \* history: which kinds of line have been received so far
    whois_ref,          \* history: per WHOIS target, the fields the server has sent
    rx,                 \* history: per batch id, its NAMES lines since its last closing line
    srv_pos,            \* the answering server: how many client lines it has read
    inflight            \* the answering server: lines on their way to the client

vars == <<p, on, writer, stop, debug, monitor, loop, raised, ncalls, call, tasks, cap_negotiating, available_caps, requested_caps,
          active_caps, cap_ended, welcome_received, cap_ls_pending,
          sasl_in_progress, sasl_payload_sent, batches, batch_names,
          whois_buf, sent, events, line, nrecv, seen, whois_ref, rx,
          srv_pos, inflight>>

capVars == <<cap_negotiating, available_caps, requested_caps, active_caps,
             cap_ended, welcome_received, cap_ls_pending, sasl_in_progress,
             sasl_payload_sent>>
aggVars == <<batches, batch_names, whois_buf>>
histVars == <<seen, whois_ref, rx>>
srvVars == <<srv_pos, inflight>>
callVars == <<stop, debug, monitor, raised, ncalls, call, tasks>>

-----------------------------------------------------------------------------
(* Bounds of the model.                                                    *)

MaxRecvNeg == 5
MaxRecvWhois == 4
MaxRecvBatch == 5
MaxRecvMode == 2
MaxCalls == 2
MaxRecvCmd == 1
MaxMonitorCalls == 3
MaxRecvDispatch == 2
MaxRecvRobust == 2
MaxRecvSession == 3
MaxSessionCalls == 2
MaxConnects == 2
MaxAuthCalls == 1

-----------------------------------------------------------------------------
(* Values.                                                                 *)

\* Python's None, for the optional profile fields and optional results.
NoneVal == "<None>"

\* Python truthiness of an Optional[str].
Truthy(x) == x # NoneVal /\ x # ""

\* A token of a line: the word w, written ":w" when colon is set.
T(w) == [colon |-> FALSE, w |-> w]
C(w) == [colon |-> TRUE, w |-> w]

NoTags == [batch |-> "", label |-> "", time |-> ""]
Untagged(toks) == [tags |-> NoTags, toks |-> toks]
NoLine == Untagged(<< >>)

\* A line as written to the transport: the command and its arguments.
Wire(cmd, arg) == [cmd |-> cmd, arg |-> arg]

\* A call of the caller: the method and its arguments.
Call(op, args) == [op |-> op, args |-> args]
NoCall == Call("", << >>)

\* The tasks that write to the transport: two tasks of the consumer and the
\* task of the read loop.
TaskIds == {"t1", "t2", "loop"}

\* A task: the coroutine op(args) it runs, pc "idle" before it starts, "await"
\* while it is suspended in the drain() of a _send with the lines todo still to
\* send, "done" once it has returned; at: where in sent its lines stand.
Task(op, args, pc, todo, at) == [op |-> op, args |-> args, pc |-> pc, todo |-> todo, at |-> at]
IdleTask == Task("", << >>, "idle", << >>, << >>)

\* A listener call: the listener and its arguments.
Ev(ev, val) == [ev |-> ev, val |-> val]

\* The kinds of transmitted line.
IsCapEnd(w) == w.cmd = "CAP END"
IsCapReq(w) == w.cmd = "CAP REQ"
IsJoin(w) == w.cmd = "JOIN"
IsAuthenticate(w) == w.cmd = "AUTHENTICATE"
IsAuthPlain(w) == w = Wire("AUTHENTICATE", <<"PLAIN">>)
IsAuthPayload(w) == w.cmd = "AUTHENTICATE" /\ w.arg # <<"PLAIN">>

Last(s) == s[Len(s)]
Count(s, Test(_)) == Len(SelectSeq(s, Test))
Range(s) == {s[i] : i \in 1..Len(s)}

-----------------------------------------------------------------------------
(* The read loop's decoding of one line (after the tag block).             *)

\* rest_line.startswith(":")
HasPrefix(toks) == Len(toks) > 0 /\ toks[1].colon

\* prefix: the first token without its ':' when the line starts with ':'.
Prefix(toks) == IF HasPrefix(toks) THEN toks[1].w ELSE ""

\* rest: the line after the prefix block (the whole line without a prefix).
Rest(toks) == IF HasPrefix(toks) THEN Tail(toks) ELSE toks

\* parts = rest.split(" "); cmd = parts[0]; params = parts[1:].
Parts(toks) == Rest(toks)
Cmd(toks) == IF Parts(toks) # << >> THEN Parts(toks)[1] ELSE T("")
Params(toks) == IF Parts(toks) # << >> THEN Tail(Parts(toks)) ELSE << >>

\* str.upper() on the words the model uses.
Upper(tok) ==
    [tok EXCEPT !.w = CASE tok.w = "mode" -> "MODE"
                        [] tok.w = "ls" -> "LS"
                        [] OTHER -> tok.w]

\* The place of the first " :" of s: the first token after the first one that
\* starts with ':' (0 when there is none).
TrailIdx(s) ==
    LET I == {i \in 2..Len(s) : s[i].colon}
    IN IF I = {} THEN 0 ELSE CHOOSE i \in I : \A j \in I : i <= j

\* s.split(" :", 1)[0], as tokens.
BeforeTrail(s) == IF TrailIdx(s) = 0 THEN s ELSE SubSeq(s, 1, TrailIdx(s) - 1)

\* s.split(" :", 1)[1] if " :" in s else "": the text as its words; the empty
\* text is the empty sequence.
TrailText(s) ==
    LET i == TrailIdx(s)
        ws == [k \in 1..(Len(s) - i + 1) |-> s[i + k - 1].w]
    IN IF i = 0 \/ ws = <<"">> THEN << >> ELSE ws

\* text.split(): the words of a text.
SplitWords(text) == SelectSeq(text, LAMBDA w : w # "")

-----------------------------------------------------------------------------
(* Sending.                                                                *)

HasWriter_Always == TRUE

\* _send's test of self.writer (if self.writer is None: return).
HasWriter == writer # "none"

Discards_Never == FALSE

\* The transport of a closed or broken connection takes no more data: what
\* writer.write is given is discarded, and writer.drain raises.
Discards == writer \in {"closed", "lost"}

\* _send: nothing without a writer, else the lines are written in order.
Send(snt, lines) == IF HasWriter /\ ~Discards THEN snt \o lines ELSE snt

\* _send raises what writer.drain raises.
SendRaises == HasWriter /\ Discards

\* The listener call made when listener name is set (events in call order).
Emit(name, val) == IF on[name] = "none" THEN << >> ELSE <<Ev(name, val)>>

Disconnected_Never == << >>

\* The read loop's finally: on_status("disconnected").
Disconnected == Emit("status", <<"disconnected">>)

\* The read loop's except Exception as e: on_status("reader error: ..."), and
\* then its finally.
ReaderError == Emit("status", <<"reader error">>) \o Disconnected

EchoOf_Plain(w) == w

\* _send's log: the line, or "AUTHENTICATE <hidden>" for a line that starts
\* with "AUTHENTICATE ".
EchoOf(w) == IF w.cmd = "AUTHENTICATE" THEN Wire("AUTHENTICATE", <<"<hidden>">>) ELSE w

\* The debug echo of lines given to the writer: one status ">> line" each.
Echo(lines) ==
    IF debug /\ on.status # "none"
    THEN [i \in DOMAIN lines |-> Ev("status", <<">>", EchoOf(lines[i])>>)]
    ELSE << >>

\* The debug echo _send makes of lines: none without a writer.
SendEcho(lines) == IF HasWriter THEN Echo(lines) ELSE << >>

\* The debug echo of a received line: status "<< raw".
RecvEcho(l) == IF debug /\ on.status # "none" THEN <<Ev("status", <<"<<", l>>)>> ELSE << >>

\* The labeled passthrough: on_labeled(label, cmd, params, tags) for a line
\* with a non-empty label tag.
LabeledCall(l) ==
    IF l.tags.label # "" /\ on.labeled # "none"
    THEN <<Ev("labeled", <<l.tags.label, Cmd(l.toks), Params(l.toks), l.tags>>)>>
    ELSE << >>

\* The events once a line has passed the debug echo and the labeled passthrough.
Heard(l) == events \o RecvEcho(l) \o LabeledCall(l)

\* The lines the step writes to the transport.
Written == SubSeq(sent', Len(sent) + 1, Len(sent'))

\* _join_initial: one JOIN per channel of the profile, in the profile's order.
JoinInitialLines ==
    [i \in 1..Len(p.channels) |-> Wire("JOIN", <<p.channels[i]>>)]

EndCapLines_None == << >>

EndCapNeeded_Always == TRUE

\* _end_cap's test: CAP END is sent only when it has not been sent.
EndCapNeeded == ~cap_ended

JoinOnEndCap_Never == FALSE

\* _end_cap's join: the initial channels are joined when 001 was received.
JoinOnEndCap == welcome_received

\* _end_cap: the lines it transmits.
EndCapLines ==
    IF EndCapNeeded
    THEN <<Wire("CAP END", << >>)>> \o (IF JoinOnEndCap THEN JoinInitialLines ELSE << >>)
    ELSE << >>

\* str.encode(): the UTF-8 bytes of the strings a profile of the model holds.
Encode(x) ==
    CASE x = "" -> << >>
      [] x = "p" -> <<112>>
      [] x = "pw" -> <<112, 119>>
      [] x = "su" -> <<115, 117>>
      [] x = "peach" -> <<112, 101, 97, 99, 104>>
      [] x = "PeachUser" -> <<80, 101, 97, 99, 104, 85, 115, 101, 114>>

\* The base64 alphabet, value 0 first.
B64Alphabet ==
    <<"A", "B", "C", "D", "E", "F", "G", "H", "I", "J", "K", "L", "M", "N", "O", "P",
      "Q", "R", "S", "T", "U", "V", "W", "X", "Y", "Z", "a", "b", "c", "d", "e", "f",
      "g", "h", "i", "j", "k", "l", "m", "n", "o", "p", "q", "r", "s", "t", "u", "v",
      "w", "x", "y", "z", "0", "1", "2", "3", "4", "5", "6", "7", "8", "9", "+", "/">>

\* base64.b64encode(msg).decode(): four characters per three bytes, the last
\* group padded with "=".
RECURSIVE B64Encode(_)
B64Encode(msg) ==
    IF msg = << >> THEN ""
    ELSE LET n == IF Len(msg) >= 3 THEN 3 ELSE Len(msg)
             v == msg[1] * 65536 + (IF n >= 2 THEN msg[2] * 256 ELSE 0)
                                 + (IF n = 3 THEN msg[3] ELSE 0)
             ch(k) == B64Alphabet[((v \div k) % 64) + 1]
         IN ch(262144) \o ch(4096) \o (IF n >= 2 THEN ch(64) ELSE "=")
               \o (IF n = 3 THEN ch(1) ELSE "=") \o B64Encode(SubSeq(msg, n + 1, Len(msg)))

Authcid_UserFirst ==
    IF Truthy(p.user) THEN p.user ELSE IF Truthy(p.sasl_user) THEN p.sasl_user ELSE p.nick

\* authcid = self.p.sasl_user or self.p.user or self.p.nick
Authcid ==
    IF Truthy(p.sasl_user) THEN p.sasl_user ELSE IF Truthy(p.user) THEN p.user ELSE p.nick

\* _sasl_payload: AUTHENTICATE base64(authzid NUL authcid NUL passwd).
SaslPayload ==
    LET authzid == ""
        passwd == IF Truthy(p.password) THEN p.password ELSE ""
        msg == Encode(authzid) \o <<0>> \o Encode(Authcid) \o <<0>> \o Encode(passwd)
    IN Wire("AUTHENTICATE", <<B64Encode(msg)>>)

-----------------------------------------------------------------------------
(* PING.                                                                   *)

\* raw.startswith("@"): the line came with a tag block.
IsTagged(l) == l.tags # NoTags

\* rest_line.startswith("PING ")
IsPing(l) == Len(l.toks) >= 2 /\ l.toks[1] = T("PING")

\* A word with its ':' in front, on the words the model uses.
Colon(w) ==
    CASE w = "abc" -> ":abc"
      [] w = "irc.srv" -> ":irc.srv"
      [] w = "" -> ":"
      [] w = "#a" -> ":#a"
      [] w = "hi" -> ":hi"

\* A token as it stands in the raw line.
Raw(tok) == IF tok.colon THEN Colon(tok.w) ELSE tok.w

\* raw.split(" ", 1)[1]: the raw line after its first space; raw starts with
\* the tag block when there is one.
PongPayload(l) ==
    LET after == IF IsTagged(l) THEN l.toks ELSE Tail(l.toks)
    IN [i \in DOMAIN after |-> Raw(after[i])]

-----------------------------------------------------------------------------
(* Capability negotiation.                                                 *)

\* The capability names of the model in sorted() order.
CapOrder == <<"batch", "foo", "sasl", "server-time">>

\* sorted(S) for a set of capability names.
SortCaps(S) == SelectSeq(CapOrder, LAMBDA c : c \in S)

CapWant_SaslUser ==
    {"server-time", "message-tags", "echo-message", "account-notify",
     "away-notify", "chghost", "setname", "batch", "labeled-response",
     "multi-prefix"}
    \cup (IF Truthy(p.password) \/ Truthy(p.sasl_user) THEN {"sasl"} ELSE {})

\* want: the capabilities _handle_cap asks for.
CapWant ==
    {"server-time", "message-tags", "echo-message", "account-notify",
     "away-notify", "chghost", "setname", "batch", "labeled-response",
     "multi-prefix"}
    \cup (IF Truthy(p.password) THEN {"sasl"} ELSE {})

ShouldRequest_Again(req) == req # << >>

\* if req and not self._requested_caps
ShouldRequest(req) == req # << >> /\ requested_caps = {}

SaslWanted_AnyAck(acks) == Truthy(p.password)

\* if "sasl" in acks and self.p.password
SaslWanted(acks) == "sasl" \in acks /\ Truthy(p.password)

SaslResults_SuccessOnly == {"903"}

\* The SASL result numerics: 903 success, 904-907 failure or abort.
SaslResults == {"903", "904", "905", "906", "907"}

JoinOnWelcome_Always == TRUE

\* if not self._cap_negotiating or self._cap_ended (numeric 001)
JoinOnWelcome == ~cap_negotiating \/ cap_ended

\* What the history records of a received line.
Kinds(l) ==
    LET r == Rest(l.toks)
        isCap(sub) == Len(r) > 2 /\ r[1] = T("CAP") /\ r[3] = T(sub)
    IN (IF isCap("ACK") /\ "sasl" \in Range(TrailText(r)) THEN {"ACK-sasl"} ELSE {})
       \cup {sub \in {"LS", "ACK", "NAK"} : isCap(sub)}
       \cup (IF Len(r) > 0 /\ r[1] = T("AUTHENTICATE") THEN {"AUTHENTICATE"} ELSE {})
       \cup (IF Len(r) > 0 THEN {r[1].w} \cap {"001", "903", "904", "905", "906", "907"}
             ELSE {})
       \cup (IF Len(r) > 1 /\ r[1] = T("BATCH") THEN {r[2].w} ELSE {})

\* The limit of the stream reader connect() opens: asyncio's default, 2**16.
LineLimit == 65536

\* The word of the model that stands for 70000 characters.
LongWord == "x * 70000"

\* The length of a line in bytes; the words of the model are short but one.
ByteLen(l) == IF \E i \in DOMAIN l.toks : l.toks[i].w = LongWord THEN 70000 ELSE 512

\* readline() returns a line of at most LineLimit bytes.
Readable(l) == ByteLen(l) <= LineLimit

\* while not self._stop, tested once the line is handled.
AfterLine == IF stop THEN "stopping" ELSE "running"

\* readline() hands the running read loop one more line.
TakeLine(l) ==
    /\ loop = "running"
    /\ Readable(l)
    /\ line' = l
    /\ nrecv' = nrecv + 1
    /\ seen' = seen \cup Kinds(l)
    /\ UNCHANGED <<p, on>>
    /\ UNCHANGED callVars

\* One more line read by the read loop over an open transport.
ReadLine(l) ==
    /\ writer = "open"
    /\ TakeLine(l)
    /\ loop' = AfterLine
    /\ UNCHANGED writer

\* _handle_cap, subcommand LS.
CapLS(payload) ==
    LET caps == Range(SplitWords(payload))
        avail == available_caps \cup caps
        req == SortCaps(CapWant \cap avail)
    IN /\ available_caps' = avail
       /\ cap_ls_pending' = (cap_ls_pending \/ requested_caps = {})
       /\ IF ShouldRequest(req)
          THEN /\ requested_caps' = requested_caps \cup Range(req)
               /\ sent' = Send(sent, <<Wire("CAP REQ", req)>>)
               /\ UNCHANGED cap_ended
          ELSE IF req = << >>
          THEN /\ sent' = Send(sent, EndCapLines)
               /\ cap_ended' = TRUE
               /\ UNCHANGED requested_caps
          ELSE UNCHANGED <<requested_caps, sent, cap_ended>>
       /\ UNCHANGED <<active_caps, sasl_in_progress, sasl_payload_sent>>

\* _handle_cap, subcommand ACK (with _begin_sasl).
CapACK(payload) ==
    LET acks == Range(SplitWords(payload))
    IN /\ active_caps' = active_caps \cup acks
       /\ IF SaslWanted(acks)
          THEN /\ sasl_in_progress' = TRUE
               /\ sasl_payload_sent' = FALSE
               /\ sent' = Send(sent, <<Wire("AUTHENTICATE", <<"PLAIN">>)>>)
               /\ UNCHANGED cap_ended
          ELSE /\ sent' = Send(sent, EndCapLines)
               /\ cap_ended' = TRUE
               /\ UNCHANGED <<sasl_in_progress, sasl_payload_sent>>
       /\ UNCHANGED <<available_caps, requested_caps, cap_ls_pending>>

\* _handle_cap, subcommand NAK.
CapNAK ==
    /\ sent' = Send(sent, EndCapLines)
    /\ cap_ended' = TRUE
    /\ UNCHANGED <<available_caps, requested_caps, active_caps, cap_ls_pending,
                   sasl_in_progress, sasl_payload_sent>>

\* The read loop on a CAP line: subcommand and payload, then _handle_cap.
HandleCap(l) ==
    LET parts == Parts(l.toks)
        subcmd == Upper(IF Len(parts) > 2 THEN parts[3] ELSE T(""))
        payload == TrailText(Rest(l.toks))
    IN /\ Cmd(l.toks) = T("CAP")
       /\ ReadLine(l)
       /\ CASE subcmd = T("LS") -> CapLS(payload)
            [] subcmd = T("ACK") -> CapACK(payload)
            [] subcmd = T("NAK") -> CapNAK
            [] OTHER -> UNCHANGED <<available_caps, requested_caps, active_caps,
                                    cap_ended, cap_ls_pending, sasl_in_progress,
                                    sasl_payload_sent, sent>>
       /\ events' = Heard(l) \o SendEcho(Written)
       /\ UNCHANGED <<cap_negotiating, welcome_received, whois_ref, rx>>
       /\ UNCHANGED aggVars

\* The read loop on numeric 001.
HandleWelcome(l) ==
    /\ Cmd(l.toks) = T("001")
    /\ ReadLine(l)
    /\ welcome_received' = TRUE
    /\ sent' = IF JoinOnWelcome THEN Send(sent, JoinInitialLines) ELSE sent
    /\ events' = Heard(l) \o Emit("status", <<"001 welcome received">>) \o SendEcho(Written)
    /\ UNCHANGED <<cap_negotiating, available_caps, requested_caps, active_caps,
                   cap_ended, cap_ls_pending, sasl_in_progress, sasl_payload_sent,
                   whois_ref, rx>>
    /\ UNCHANGED aggVars

PayloadDue_AnyPlus(l) == Params(l.toks) = <<T("+")>>

\* params.strip() == "+" and self._sasl_in_progress and not self._sasl_payload_sent
PayloadDue(l) == Params(l.toks) = <<T("+")>> /\ sasl_in_progress /\ ~sasl_payload_sent

\* The read loop on AUTHENTICATE: the payload is sent on "+" during SASL, once.
HandleAuthenticate(l) ==
    /\ Cmd(l.toks) = T("AUTHENTICATE")
    /\ ReadLine(l)
    /\ IF PayloadDue(l)
       THEN /\ sent' = Send(sent, <<SaslPayload>>)
            /\ events' = Heard(l) \o Emit("status", <<"SASL server requested payload (+)">>)
                                \o SendEcho(Written)
            /\ sasl_payload_sent' = TRUE
       ELSE /\ events' = Heard(l)
            /\ UNCHANGED <<sent, sasl_payload_sent>>
    /\ UNCHANGED <<cap_negotiating, available_caps, requested_caps, active_caps,
                   cap_ended, welcome_received, cap_ls_pending, sasl_in_progress,
                   whois_ref, rx>>
    /\ UNCHANGED aggVars

\* The read loop on a SASL result numeric.
HandleSaslResult(l) ==
    /\ Cmd(l.toks).colon = FALSE
    /\ Cmd(l.toks).w \in SaslResults
    /\ ReadLine(l)
    /\ sasl_in_progress' = FALSE
    /\ sent' = Send(sent, EndCapLines)
    /\ events' = Heard(l) \o Emit("status", <<"SASL result", Cmd(l.toks).w>>)
                        \o SendEcho(Written)
    /\ cap_ended' = TRUE
    /\ UNCHANGED <<cap_negotiating, available_caps, requested_caps, active_caps,
                   welcome_received, cap_ls_pending, sasl_payload_sent,
                   whois_ref, rx>>
    /\ UNCHANGED aggVars

\* The read loop on PING: PONG with what follows the first space of the raw
\* line; a failure of this _send ends the read loop.
HandlePing(l) ==
    LET pong == <<Wire("PONG", PongPayload(l))>>
    IN /\ IsPing(l)
       /\ TakeLine(l)
       /\ sent' = Send(sent, pong)
       /\ IF SendRaises
          THEN /\ events' = events \o RecvEcho(l) \o SendEcho(pong) \o ReaderError
               /\ loop' = "ended"
          ELSE /\ events' = events \o RecvEcho(l) \o SendEcho(pong)
               /\ loop' = AfterLine
       /\ UNCHANGED <<writer, whois_ref, rx>>
       /\ UNCHANGED capVars
       /\ UNCHANGED aggVars

-----------------------------------------------------------------------------
(* WHOIS aggregation.                                                      *)

\* dict.update: the entries of b over those of a.
Merge(a, b) ==
    [k \in (DOMAIN a) \cup (DOMAIN b) |-> IF k \in DOMAIN b THEN b[k] ELSE a[k]]

\* dict.pop(k, default) and the dict it leaves.
Drop(f, k) == [j \in (DOMAIN f) \ {k} |-> f[j]]
Get(f, k, default) == IF k \in DOMAIN f THEN f[k] ELSE default

\* int(s) if s.isdigit() else None, on the numbers the model uses.
IntOrNone(tok) ==
    CASE tok = T("5") -> 5
      [] tok = T("100") -> 100
      [] OTHER -> NoneVal

\* The numerics that add WHOIS fields.
WhoisNumerics == {"311", "312", "317", "319", "330", "338"}

\* The fewest tokens of rest.split() the handler of a WHOIS numeric needs; with
\* fewer it raises IndexError and the line changes nothing.
WhoisMinParts(cmd) ==
    CASE cmd = "311" -> 4
      [] cmd = "312" -> 3
      [] OTHER -> 2

\* The place in parts2 = rest.split() where the handlers read the nick: parts2[1].
WhoisNickAt == 2

\* The fields a WHOIS numeric adds, from parts2 = rest.split() and the text
\* after " :".
WhoisFields(cmd, rest) ==
    LET at(i) == rest[WhoisNickAt + i]
        has(i) == Len(rest) >= WhoisNickAt + i
        text == TrailText(rest)
    IN CASE cmd = "311" -> [user |-> at(1), host |-> at(2), realname |-> text]
         [] cmd = "312" -> [server |-> at(1), server_info |-> text]
         [] cmd = "317" -> [idle |-> IF has(1) THEN IntOrNone(at(1)) ELSE NoneVal,
                            signon |-> IF has(2) THEN IntOrNone(at(2)) ELSE NoneVal]
         [] cmd = "319" -> [channels |-> SplitWords(text)]
         [] cmd = "330" -> [account |-> IF has(1) THEN at(1) ELSE T(NoneVal)]
         [] cmd = "338" -> [actually |-> text]

\* What the server has said of each WHOIS target since the target's last 318:
\* "<numeric> <me> <nick> <field> ...", the layout of the WHOIS replies.
WhoisRefAfter(l) ==
    LET r == Rest(l.toks)
        cmd == Cmd(l.toks).w
        named == Len(r) >= 3
        nick == r[3]
        told(i) == r[3 + i]
        text == TrailText(r)
        fields ==
            CASE cmd = "311" -> [user |-> told(1), host |-> told(2), realname |-> text]
              [] cmd = "312" -> [server |-> told(1), server_info |-> text]
              [] cmd = "317" -> [idle |-> IntOrNone(told(1)), signon |-> IntOrNone(told(2))]
              [] cmd = "319" -> [channels |-> SplitWords(text)]
              [] cmd = "330" -> [account |-> told(1)]
              [] cmd = "338" -> [actually |-> text]
    IN IF ~named THEN whois_ref
       ELSE IF cmd \in WhoisNumerics
       THEN Merge(whois_ref, nick :> Merge(Get(whois_ref, nick, << >>), fields))
       ELSE IF cmd = "318" THEN Drop(whois_ref, nick)
       ELSE whois_ref

\* The read loop on 311, 312, 317, 319, 330 and 338: the fields are merged into
\* the accumulator of the nick.
HandleWhoisNumeric(l) ==
    LET rest == Rest(l.toks)
        cmd == Cmd(l.toks).w
        nick == rest[WhoisNickAt]
    IN /\ Cmd(l.toks).colon = FALSE
       /\ cmd \in WhoisNumerics
       /\ ReadLine(l)
       /\ whois_ref' = WhoisRefAfter(l)
       /\ IF Len(rest) >= WhoisMinParts(cmd)
          THEN whois_buf' =
                  Merge(whois_buf,
                        nick :> Merge(Get(whois_buf, nick, << >>), WhoisFields(cmd, rest)))
          ELSE UNCHANGED whois_buf
       /\ events' = Heard(l)
       /\ UNCHANGED <<sent, batches, batch_names, rx>>
       /\ UNCHANGED capVars

\* The read loop on 318: the accumulator of the nick is removed and handed to
\* the whois listener.
HandleWhoisEnd(l) ==
    LET rest == Rest(l.toks)
        nick == rest[WhoisNickAt]
    IN /\ Cmd(l.toks) = T("318")
       /\ ReadLine(l)
       /\ whois_ref' = WhoisRefAfter(l)
       /\ IF Len(rest) >= WhoisNickAt
          THEN /\ whois_buf' = Drop(whois_buf, nick)
               /\ events' = Heard(l) \o Emit("whois", <<nick, Get(whois_buf, nick, << >>)>>)
          ELSE /\ events' = Heard(l)
               /\ UNCHANGED whois_buf
       /\ UNCHANGED <<sent, batches, batch_names, rx>>
       /\ UNCHANGED capVars

-----------------------------------------------------------------------------
(* BATCH and NAMES.                                                        *)

\* ident.startswith("+") / ident.startswith("-") and ident[1:], on the batch
\* references the model uses; sign "" is neither.
BatchIdent(tok) ==
    CASE tok = T("+b1") -> [sign |-> "+", id |-> "b1"]
      [] tok = T("-b1") -> [sign |-> "-", id |-> "b1"]
      [] tok = T("+b2") -> [sign |-> "+", id |-> "b2"]
      [] tok = T("-b2") -> [sign |-> "-", id |-> "b2"]
      [] OTHER -> [sign |-> "", id |-> ""]

\* The entries of bychan the closing line hands to on_names: those with a
\* non-empty list (if lst), in dict order.
FlushEntries(bychan) == SelectSeq(bychan, LAMBDA e : e.nicks # << >>)

\* The on_names calls a closing BATCH line makes for bychan: all of them, or
\* only the first when the listener raises.
FlushCalls(bychan) ==
    LET es == FlushEntries(bychan)
        calls == [i \in DOMAIN es |-> Ev("names", <<es[i].ch, es[i].nicks>>)]
    IN IF on.names = "none" THEN << >>
       ELSE IF on.names = "raises" /\ calls # << >> THEN <<calls[1]>>
       ELSE calls

Buffered_NewestFirst(bychan, ch, names) ==
    IF \E i \in DOMAIN bychan : bychan[i].ch = ch
    THEN [i \in DOMAIN bychan |->
            IF bychan[i].ch = ch
            THEN [bychan[i] EXCEPT !.nicks = @ \o names]
            ELSE bychan[i]]
    ELSE <<[ch |-> ch, nicks |-> names]>> \o bychan

\* bychan.setdefault(ch, []).extend(names): dict order is first-insertion order.
Buffered(bychan, ch, names) ==
    IF \E i \in DOMAIN bychan : bychan[i].ch = ch
    THEN [i \in DOMAIN bychan |->
            IF bychan[i].ch = ch
            THEN [bychan[i] EXCEPT !.nicks = @ \o names]
            ELSE bychan[i]]
    ELSE Append(bychan, [ch |-> ch, nicks |-> names])

\* What the history keeps of the NAMES lines of each batch id.
RxAfterNames(l) ==
    LET r == Rest(l.toks)
        id == l.tags.batch
    IN IF id = "" \/ Len(r) < 4 THEN rx
       ELSE Merge(rx, id :> Append(Get(rx, id, << >>),
                                   [ch |-> r[4], nicks |-> SplitWords(TrailText(r))]))

\* The read loop on BATCH: "+id type" opens a context, "-id" flushes the
\* buffered names to on_names and discards the context.
HandleBatch(l) ==
    LET tok == Params(l.toks)
        ident == BatchIdent(tok[1])
        bid == ident.id
        btype == IF Len(tok) > 1 THEN tok[2] ELSE T("")
        calls == FlushCalls(Get(batch_names, bid, << >>))
        failed == on.names = "raises" /\ calls # << >>
    IN /\ Upper(Cmd(l.toks)) = T("BATCH")
       /\ ReadLine(l)
       /\ IF tok = << >>
          THEN /\ events' = Heard(l)
               /\ UNCHANGED <<batches, batch_names, rx>>
          ELSE IF ident.sign = "+"
          THEN /\ batches' = Merge(batches, bid :> btype)
               /\ batch_names' = Merge(batch_names, bid :> Get(batch_names, bid, << >>))
               /\ events' = Heard(l)
               /\ UNCHANGED rx
          ELSE IF ident.sign = "-"
          THEN /\ events' = Heard(l) \o calls
               /\ batch_names' = IF failed THEN batch_names ELSE Drop(batch_names, bid)
               /\ batches' = IF failed THEN batches ELSE Drop(batches, bid)
               /\ rx' = Drop(rx, bid)
          ELSE /\ events' = Heard(l)
               /\ UNCHANGED <<batches, batch_names, rx>>
       /\ UNCHANGED <<sent, whois_buf, whois_ref>>
       /\ UNCHANGED capVars

\* The read loop on 353: the names go to the buffer of the batch the line is
\* tagged with, or straight to on_names without a batch tag.
HandleNames(l) ==
    LET rest == Rest(l.toks)
        ch == Last(BeforeTrail(rest))
        names == SplitWords(TrailText(rest))
        bid == l.tags.batch
    IN /\ Cmd(l.toks) = T("353")
       /\ ReadLine(l)
       /\ rx' = RxAfterNames(l)
       /\ IF bid # ""
          THEN /\ batch_names' =
                    Merge(batch_names,
                          bid :> Buffered(Get(batch_names, bid, << >>), ch, names))
               /\ events' = Heard(l)
          ELSE /\ events' = Heard(l) \o Emit("names", <<ch, names>>)
               /\ UNCHANGED batch_names
       /\ UNCHANGED <<sent, batches, whois_buf, whois_ref>>
       /\ UNCHANGED capVars

-----------------------------------------------------------------------------
(* Channel MODE.                                                           *)

\* The characters of the words of MODE lines (iterating a str).
Chars(w) ==
    CASE w = "+o-v" -> <<"+", "o", "-", "v">>
      [] w = "+vo" -> <<"+", "v", "o">>
      [] w = "-h+q" -> <<"-", "h", "+", "q">>
      [] w = "+kv" -> <<"+", "k", "v">>
      [] w = "o" -> <<"o">>
      [] w = "+nt" -> <<"+", "n", "t">>
      [] w = "#chan" -> <<"#", "c", "h", "a", "n">>
      [] w = "&ops" -> <<"&", "o", "p", "s">>
      [] w = "alice" -> <<"a", "l", "i", "c", "e">>
      [] w = "bob" -> <<"b", "o", "b">>
      [] w = "key" -> <<"k", "e", "y">>
      [] w = "+i" -> <<"+", "i">>
      [] w = "MODE" -> <<"M", "O", "D", "E">>
      [] w = "nick" -> <<"n", "i", "c", "k">>
      [] w = "G" -> <<"G">>
      [] w = "H" -> <<"H">>
      [] w = "GH" -> <<"G", "H">>
      [] OTHER -> << >>

\* The characters of a token as written: with its ':' when it has one.
RawChars(tok) == (IF tok.colon THEN <<":">> ELSE << >>) \o Chars(tok.w)

\* ch.startswith(("#", "&"))
IsChannelName(tok) == RawChars(tok) # << >> /\ RawChars(tok)[1] \in {"#", "&"}

\* The mode letters that take a nick: owner, admin, op, halfop, voice.
UserModes == {"q", "a", "o", "h", "v"}

\* The walk of the mode letters cs against args; add is the running sign
\* (None before any sign) and ai the number of arguments used.
RECURSIVE ModeWalk(_, _, _, _)
ModeWalk(cs, args, add, ai) ==
    IF cs = << >> THEN << >>
    ELSE LET c == Head(cs)
         IN IF c = "+" THEN ModeWalk(Tail(cs), args, "True", ai)
            ELSE IF c = "-" THEN ModeWalk(Tail(cs), args, "False", ai)
            ELSE IF c \in UserModes /\ ai < Len(args)
            THEN <<<<(add = "True"), c, args[ai + 1]>>>> \o ModeWalk(Tail(cs), args, add, ai + 1)
            ELSE ModeWalk(Tail(cs), args, add, ai)

\* changes: the (add, letter, nick) entries of a mode string and its arguments.
ModeChanges(mode_seq, args) == ModeWalk(RawChars(mode_seq), args, NoneVal, 0)

\* s.split(" ", 2)[-1].split() for the tokens s of a text.
AfterTwoSplits(s) ==
    IF Len(s) >= 3 THEN SubSeq(s, 3, Len(s))
    ELSE IF s = << >> THEN << >> ELSE <<Last(s)>>

\* mode_and_args = (rest_line.split(" :", 1)[0].split(" ", 2)[-1]).split()
ModeAndArgs(rest_line) == AfterTwoSplits(BeforeTrail(rest_line))

\* The read loop on MODE: the user-affecting changes of a channel go to
\* on_mode_users.
HandleMode(l) ==
    LET parts2 == Params(l.toks)
        ch == IF parts2 # << >> THEN parts2[1] ELSE T("")
        mode_and_args == ModeAndArgs(l.toks)
        changes == ModeChanges(mode_and_args[1], Tail(mode_and_args))
    IN /\ Upper(Cmd(l.toks)) = T("MODE")
       /\ ReadLine(l)
       /\ IF IsChannelName(ch) /\ mode_and_args # << >> /\ changes # << >>
          THEN events' = events \o RecvEcho(l) \o Emit("mode_users", <<ch, changes>>)
          ELSE events' = events \o RecvEcho(l)
       /\ UNCHANGED <<sent, whois_ref, rx>>
       /\ UNCHANGED capVars
       /\ UNCHANGED aggVars

-----------------------------------------------------------------------------
(* Presence: MONITOR numerics, AWAY, ACCOUNT, WHO and WHOX replies.  These *)
(* handlers come before the labeled passthrough.                           *)

\* What a handler placed before the labeled passthrough leaves alone.
BeforeLabel(l) ==
    /\ ReadLine(l)
    /\ UNCHANGED <<sent, whois_ref, rx>>
    /\ UNCHANGED capVars
    /\ UNCHANGED aggVars

\* x.split("!")[0], on the prefixes and items the model uses.
NickOf(x) ==
    CASE x = "n!u@h" -> "n"
      [] x = "a!u@h" -> "a"
      [] x = "op!u@h" -> "op"
      [] x = "alice!u@h" -> "alice"
      [] OTHER -> x

\* payload.split(","), on the words the model uses.
SplitComma(w) ==
    CASE w = "a!u@h,b" -> <<"a!u@h", "b">>
      [] w = "a,b" -> <<"a", "b">>
      [] w = "," -> <<"", "">>
      [] OTHER -> <<w>>

\* The nicks of a 730/731 payload: of each comma-separated item what stands
\* before "!", trimmed; the empty ones are left out.
RECURSIVE MonitorNicks(_)
MonitorNicks(text) ==
    IF text = << >> THEN << >>
    ELSE LET items == SplitComma(Head(text))
         IN SelectSeq([i \in DOMAIN items |-> NickOf(items[i])], LAMBDA n : n # "")
            \o MonitorNicks(Tail(text))

\* The read loop on 730 (online) and 731 (offline).
HandleMonitorNumeric(l) ==
    LET cmd == Cmd(l.toks)
        nicks == MonitorNicks(TrailText(Rest(l.toks)))
        listener == IF cmd = T("730") THEN "monitor_online" ELSE "monitor_offline"
    IN /\ cmd \in {T("730"), T("731")}
       /\ BeforeLabel(l)
       /\ events' = events \o RecvEcho(l)
                           \o (IF nicks # << >> THEN Emit(listener, <<nicks>>) ELSE << >>)

\* The read loop on AWAY: on_away(nick, message or None).
HandleAway(l) ==
    LET nick == NickOf(Prefix(l.toks))
        msg == IF TrailIdx(l.toks) = 0 THEN NoneVal ELSE TrailText(l.toks)
    IN /\ Upper(Cmd(l.toks)) = T("AWAY")
       /\ BeforeLabel(l)
       /\ events' = events \o RecvEcho(l) \o Emit("away", <<nick, msg>>)

\* The read loop on ACCOUNT: on_account(nick, account or None).
HandleAccount(l) ==
    LET nick == NickOf(Prefix(l.toks))
        params == Params(l.toks)
        acct == IF params \in {<<T("*")>>, <<T("0")>>} THEN NoneVal ELSE params
    IN /\ Upper(Cmd(l.toks)) = T("ACCOUNT")
       /\ BeforeLabel(l)
       /\ events' = events \o RecvEcho(l) \o Emit("account", <<nick, acct>>)

\* str.isdigit(), on the words the model uses.
IsDigits(w) == w \in {"0", "1", "5", "100"}

\* The read loop on 352: parts2 = rest.split(); on_who_detail(ch, nick, user,
\* host, realname, away), or on_who(ch, nick) without a who_detail listener;
\* with fewer than seven words nothing (IndexError).
HandleWho(l) ==
    LET parts2 == Rest(l.toks)
        flags == Range(RawChars(parts2[7]))
        away == "G" \in flags /\ "H" \notin flags
        rn == TrailText(Rest(l.toks))
        realname == IF Len(rn) > 1 /\ IsDigits(rn[1]) THEN Tail(rn) ELSE rn
        call_ == IF on.who_detail # "none"
                 THEN Emit("who_detail", <<parts2[2], parts2[6], parts2[3], parts2[4],
                                          realname, away>>)
                 ELSE Emit("who", <<parts2[2], parts2[6]>>)
    IN /\ Cmd(l.toks) = T("352")
       /\ BeforeLabel(l)
       /\ events' = events \o RecvEcho(l) \o (IF Len(parts2) >= 7 THEN call_ ELSE << >>)

\* The read loop on 354: on_who(ch, nick) with the channel guessed from the
\* third or second word and the nick from the last words.
HandleWhox(l) ==
    LET parts2 == Rest(l.toks)
        n == Len(parts2)
        ch == IF n > 3 /\ IsChannelName(parts2[3]) THEN parts2[3] ELSE parts2[2]
        nick == IF parts2[n].colon /\ n > 3 THEN parts2[n - 1] ELSE parts2[n]
    IN /\ Cmd(l.toks) = T("354")
       /\ BeforeLabel(l)
       /\ events' = events \o RecvEcho(l)
                           \o (IF n >= 2 THEN Emit("who", <<ch, T(nick.w)>>) ELSE << >>)

-----------------------------------------------------------------------------
(* PRIVMSG and its timestamp; JOIN, PART, QUIT, NICK, CHGHOST and SETNAME. *)

\* An instant: seconds and milliseconds since the epoch.
Instant(s, ms) == [s |-> s, ms |-> ms]

\* datetime.fromisoformat(t).timestamp(), a trailing "Z" read as "+00:00", on
\* the time tags the model uses; << >> when fromisoformat raises.
FromIsoFormat(t) ==
    CASE t = "2023-10-11T12:34:56.789Z" -> <<Instant(1697027696, 789)>>
      [] t = "2023-10-11T14:34:56.789+02:00" -> <<Instant(1697027696, 789)>>
      [] t = "1970-01-01T00:00:00.000Z" -> <<Instant(0, 0)>>
      [] t = "1969-12-31T23:59:59Z" -> <<Instant(-1, 0)>>
      [] t = "2016-12-31T23:59:60Z" -> << >>
      [] t = "not-a-time" -> << >>
      [] OTHER -> << >>

\* _ts_from_tags: None (<< >>) without a time tag or when the tag does not parse.
TsFromTags(tags) == IF tags.time = "" THEN << >> ELSE FromIsoFormat(tags.time)

\* time.time() when the line is handled: later than every instant of a tag.
ReceiveTime == Instant(1700000000, 0)

\* Python's truth value of an Optional[float]: None and 0.0 are false.
Falsy(ts) == ts = << >> \/ ts[1] = Instant(0, 0)

\* ts = self._ts_from_tags(tags) or time.time()
MessageTs(tags) ==
    LET ts == TsFromTags(tags) IN IF Falsy(ts) THEN ReceiveTime ELSE ts[1]

\* Listener calls made in one try block: the calls up to the first that raises.
RECURSIVE Guarded(_)
Guarded(calls) ==
    IF calls = << >> THEN << >>
    ELSE IF on[Head(calls).ev] = "raises" THEN <<Head(calls)>>
    ELSE <<Head(calls)>> \o Guarded(Tail(calls))

\* What a handler that only calls listeners leaves alone.
Forwarded(l) ==
    /\ ReadLine(l)
    /\ UNCHANGED <<sent, whois_ref, rx>>
    /\ UNCHANGED capVars
    /\ UNCHANGED aggVars

\* The read loop on PRIVMSG with a " :": on_message(nick, target, text, ts) and
\* on_message_tags(nick, target, text, ts, tags); without " :" nothing.
HandlePrivmsg(l) ==
    LET target == Params(l.toks)[1]
        text == TrailText(l.toks)
        ts == MessageTs(l.tags)
        nick == NickOf(Prefix(l.toks))
    IN /\ Upper(Cmd(l.toks)) = T("PRIVMSG")
       /\ Forwarded(l)
       /\ IF TrailIdx(l.toks) # 0
          THEN events' = Heard(l) \o Guarded(Emit("message", <<nick, target, text, ts>>)
                                             \o Emit("message_tags", <<nick, target, text, ts, l.tags>>))
          ELSE events' = Heard(l)

MembershipCmds == {"JOIN", "PART", "QUIT", "NICK", "CHGHOST", "SETNAME"}

\* The listener call of a JOIN, PART, QUIT, NICK, CHGHOST or SETNAME line.
MembershipCall(l) ==
    LET ucmd == Upper(Cmd(l.toks)).w
        nick == NickOf(Prefix(l.toks))
        params == Params(l.toks)
        raw == [i \in DOMAIN params |-> Raw(params[i])]
        parts2 == SelectSeq(raw, LAMBDA w : w # "")
        word(s, i) == IF Len(s) >= i THEN s[i] ELSE ""
        trailing(s) == IF TrailIdx(s) # 0 THEN TrailText(s) ELSE raw
    IN CASE ucmd = "JOIN" -> Emit("join", <<trailing(l.toks), nick>>)
         [] ucmd = "PART" -> Emit("part", <<word(raw, 1), nick>>)
         [] ucmd = "QUIT" -> Emit("quit", <<nick>>)
         [] ucmd = "NICK" -> Emit("nick", <<nick, trailing(Rest(l.toks))>>)
         [] ucmd = "CHGHOST" -> Emit("chghost", <<nick, word(parts2, 1), word(parts2, 2)>>)
         [] ucmd = "SETNAME" -> Emit("setname", <<nick, trailing(Rest(l.toks))>>)

\* The read loop on JOIN, PART, QUIT, NICK, CHGHOST and SETNAME.
HandleMembership(l) ==
    /\ Upper(Cmd(l.toks)).w \in MembershipCmds
    /\ Cmd(l.toks).colon = FALSE
    /\ Forwarded(l)
    /\ events' = Heard(l) \o MembershipCall(l)

-----------------------------------------------------------------------------
(* Construction and connect().                                             *)

Channels == <<"#a", "#b">>

Profile(password, sasl_user) ==
    [nick |-> "PeachUser", user |-> "peach", realname |-> "Peach Client",
     channels |-> Channels, password |-> password, sasl_user |-> sasl_user]

AllListeners ==
    [status |-> "ok", names |-> "ok", whois |-> "ok", mode_users |-> "ok",
     labeled |-> "ok", who |-> "ok", who_detail |-> "ok", away |-> "ok",
     account |-> "ok", monitor_online |-> "ok", monitor_offline |-> "ok",
     message |-> "ok", message_tags |-> "ok", join |-> "ok", part |-> "ok",
     quit |-> "ok", nick |-> "ok", chghost |-> "ok", setname |-> "ok"]

\* Every listener is set and raises when it is called.
AllRaising == [name \in DOMAIN AllListeners |-> "raises"]

\* IRCManager.__init__: what a new manager holds besides its profile and
\* its listeners.
Constructed ==
    /\ writer = "none"
    /\ stop = FALSE
    /\ debug = FALSE
    /\ monitor = {}
    /\ loop = "none"
    /\ raised = FALSE
    /\ ncalls = 0
    /\ call = NoCall
    /\ tasks = [id \in TaskIds |-> IdleTask]
    /\ cap_negotiating = FALSE
    /\ available_caps = {}
    /\ requested_caps = {}
    /\ active_caps = {}
    /\ cap_ended = FALSE
    /\ welcome_received = FALSE
    /\ cap_ls_pending = FALSE
    /\ sasl_in_progress = FALSE
    /\ sasl_payload_sent = FALSE
    /\ batches = << >>
    /\ batch_names = << >>
    /\ whois_buf = << >>
    /\ sent = << >>
    /\ events = << >>
    /\ line = NoLine
    /\ nrecv = 0
    /\ seen = {}
    /\ whois_ref = << >>
    /\ rx = << >>
    /\ srv_pos = 0
    /\ inflight = << >>

\* IRCManager.__init__
Init ==
    /\ p \in {Profile(pw, su) : pw \in {NoneVal, "pw"}, su \in {NoneVal, "su"}}
    /\ on \in {[AllListeners EXCEPT !.names = n, !.whois = w] :
                  n \in {"none", "ok", "raises"}, w \in {"none", "ok"}}
    /\ Constructed

\* The three lines connect() transmits.
ConnectLines_NickFirst ==
    <<Wire("NICK", <<p.nick>>),
      Wire("CAP LS 302", << >>),
      Wire("USER", <<p.user, "0", "*", p.realname>>)>>

ConnectLines ==
    <<Wire("CAP LS 302", << >>),
      Wire("NICK", <<p.nick>>),
      Wire("USER", <<p.user, "0", "*", p.realname>>)>>

\* What connect() does once the connection is made: negotiation and
\* registration start and a read loop is started.  No field is reset.
Connects ==
    /\ writer' = "open"
    /\ cap_negotiating' = TRUE
    /\ loop' = AfterLine
    /\ raised' = FALSE
    /\ call' = Call("connect", << >>)
    /\ events' = events \o Emit("status", <<"starting CAP negotiation (LS 302)">>)
                        \o Echo(ConnectLines)
                        \o Emit("status", <<"registering (NICK/USER sent)">>)
    /\ sent' = sent \o ConnectLines
    /\ UNCHANGED <<stop, debug, monitor, ncalls, tasks>>
    /\ UNCHANGED <<p, on, available_caps, requested_caps, active_caps, cap_ended,
                   welcome_received, cap_ls_pending, sasl_in_progress,
                   sasl_payload_sent, line, nrecv>>
    /\ UNCHANGED aggVars
    /\ UNCHANGED histVars
    /\ UNCHANGED srvVars

\* connect() on a new manager.
Connect == writer = "none" /\ Connects

\* connect() called again on a manager whose connection is over.
Reconnect == writer \in {"closed", "lost"} /\ loop = "ended" /\ Connects

-----------------------------------------------------------------------------
(* The commands of the caller.                                             *)

\* str.strip() on the arguments the model uses.
Strip(x) ==
    CASE x = " #a " -> "#a"
      [] x = "  " -> ""
      [] x = " z " -> "z"
      [] OTHER -> x

\* The nicks of the model in sorted() order.
NickOrder == <<"x", "y", "z">>

\* sorted(S) for a set of nicks.
SortNicks(S) == SelectSeq(NickOrder, LAMBDA n : n \in S)

Cleaned_Untrimmed(nicks) == {nicks[i] : i \in DOMAIN nicks} \ {""}

\* set(n.strip() for n in nicks if n.strip())
Cleaned(nicks) == {Strip(nicks[i]) : i \in DOMAIN nicks} \ {""}

\* What is common to the calls of the caller: one more call, which raised or
\* not; the read loop and what it keeps are left alone.
Called(op, args, didRaise) ==
    /\ ncalls' = ncalls + 1
    /\ call' = Call(op, args)
    /\ raised' = didRaise
    /\ UNCHANGED <<p, on, loop, debug, line, nrecv, tasks>>
    /\ UNCHANGED capVars
    /\ UNCHANGED aggVars
    /\ UNCHANGED histVars
    /\ UNCHANGED srvVars

\* await self._send(line) for each of lines, in order.
Transmit(lines) ==
    /\ events' = events \o SendEcho(lines)
    /\ sent' = Send(sent, lines)

Command_Forgetting(op, args, lines) ==
    /\ Transmit(lines)
    /\ Called(op, args, lines # << >> /\ SendRaises)
    /\ monitor' = {}
    /\ UNCHANGED <<writer, stop>>

\* A command that ends with its _send calls: it raises when a _send raises.
Command(op, args, lines) ==
    /\ Transmit(lines)
    /\ Called(op, args, lines # << >> /\ SendRaises)
    /\ UNCHANGED <<writer, stop, monitor>>

\* join: JOIN <ch> for the trimmed channel, nothing when that is empty.
JoinLines(channel) ==
    LET ch == Strip(channel)
    IN IF ch = "" THEN << >> ELSE <<Wire("JOIN", <<ch>>)>>

\* part: PART <ch> [:<reason>] for the trimmed channel, nothing when that is empty.
PartLines(channel, reason) ==
    LET ch == Strip(channel)
    IN IF ch = "" THEN << >>
       ELSE IF Truthy(reason) THEN <<Wire("PART", <<ch, reason>>)>>
       ELSE <<Wire("PART", <<ch>>)>>

\* set_topic: TOPIC <ch> :<topic> for the trimmed channel.
TopicLines(channel, topic) == <<Wire("TOPIC", <<Strip(channel), topic>>)>>

\* set_modes: MODE <ch> <modes> for the trimmed channel.
ModesLines(channel, modes) == <<Wire("MODE", <<Strip(channel), modes>>)>>

\* send_privmsg: PRIVMSG <target> :<text>, the target as given.
PrivmsgLines(target, text) == <<Wire("PRIVMSG", <<target, text>>)>>

join(channel) == Command("join", <<channel>>, JoinLines(channel))
part(channel, reason) == Command("part", <<channel, reason>>, PartLines(channel, reason))
set_topic(channel, topic) == Command("set_topic", <<channel, topic>>, TopicLines(channel, topic))
set_modes(channel, modes) == Command("set_modes", <<channel, modes>>, ModesLines(channel, modes))
send_privmsg(target, text) ==
    Command("send_privmsg", <<target, text>>, PrivmsgLines(target, text))

\* MONITOR <sign> <nicks joined in sorted order>
MonitorLine(sign, S) == Wire("MONITOR", <<sign>> \o SortNicks(S))

MonitorDelta_All(nicks) == Cleaned(nicks)

\* monitor_add's delta: the cleaned nicks that are not tracked.
MonitorDelta(nicks) == Cleaned(nicks) \ monitor

\* monitor_add: the delta is tracked, then transmitted; nothing for an empty delta.
monitor_add(nicks) ==
    LET add == MonitorDelta(nicks)
        lines == IF add = {} THEN << >> ELSE <<MonitorLine("+", add)>>
    IN /\ monitor' = monitor \cup add
       /\ Transmit(lines)
       /\ Called("monitor_add", nicks, lines # << >> /\ SendRaises)
       /\ UNCHANGED <<writer, stop>>

\* monitor_remove: the tracked ones among the cleaned nicks are dropped, then
\* transmitted; nothing when there is none.
monitor_remove(nicks) ==
    LET rem == Cleaned(nicks) \cap monitor
        lines == IF rem = {} THEN << >> ELSE <<MonitorLine("-", rem)>>
    IN /\ monitor' = monitor \ rem
       /\ Transmit(lines)
       /\ Called("monitor_remove", nicks, lines # << >> /\ SendRaises)
       /\ UNCHANGED <<writer, stop>>

\* monitor_set: MONITOR C (a failure of this _send is swallowed), the tracked
\* set is replaced, then MONITOR + with the whole set when it is not empty.
monitor_set(nicks) ==
    LET new == Cleaned(nicks)
        plus == IF new = {} THEN << >> ELSE <<MonitorLine("+", new)>>
    IN /\ monitor' = new
       /\ Transmit(<<Wire("MONITOR", <<"C">>)>> \o plus)
       /\ Called("monitor_set", nicks, plus # << >> /\ SendRaises)
       /\ UNCHANGED <<writer, stop>>

\* close: the stop flag, QUIT :bye (a failure of this _send is swallowed), then
\* the writer, when there is one, is closed.
close ==
    /\ stop' = TRUE
    /\ Transmit(<<Wire("QUIT", <<"bye">>)>>)
    /\ writer' = IF HasWriter THEN "closed" ELSE writer
    /\ Called("close", << >>, FALSE)
    /\ UNCHANGED monitor

\* The consumer sets self.debug.
SetDebug ==
    /\ ~debug
    /\ debug' = TRUE
    /\ UNCHANGED <<p, on, writer, stop, monitor, loop, raised, ncalls, call, tasks,
                   sent, events, line, nrecv>>
    /\ UNCHANGED capVars
    /\ UNCHANGED aggVars
    /\ UNCHANGED histVars
    /\ UNCHANGED srvVars

-----------------------------------------------------------------------------
(* The ends of the read loop.                                              *)

\* What no end of the read loop changes.
LoopEnds ==
    /\ loop' = "ended"
    /\ UNCHANGED <<p, on, sent, line, nrecv>>
    /\ UNCHANGED callVars
    /\ UNCHANGED capVars
    /\ UNCHANGED aggVars
    /\ UNCHANGED histVars
    /\ UNCHANGED srvVars

\* readline() returns b"": the server, or close(), ended the stream.  A
\* transport that was open may stay writable (a half-closed TCP stream) or not.
LoopEof ==
    /\ loop = "running"
    /\ events' = events \o Emit("status", <<"server closed connection">>) \o Disconnected
    /\ writer' \in (IF writer = "open" THEN {"open", "lost"} ELSE {writer})
    /\ LoopEnds

\* readline() raises: the connection broke.
LoopError ==
    /\ loop = "running"
    /\ events' = events \o ReaderError
    /\ writer' = IF writer = "open" THEN "lost" ELSE writer
    /\ LoopEnds

\* readline() raises ValueError: the server sent a line longer than the limit
\* of the stream reader.  The transport is as it was.
ReadOverlong(l) ==
    /\ loop = "running"
    /\ writer = "open"
    /\ ~Readable(l)
    /\ line' = l
    /\ nrecv' = nrecv + 1
    /\ events' = events \o ReaderError
    /\ loop' = "ended"
    /\ UNCHANGED <<p, on, writer, sent>>
    /\ UNCHANGED callVars
    /\ UNCHANGED capVars
    /\ UNCHANGED aggVars
    /\ UNCHANGED histVars
    /\ UNCHANGED srvVars

\* while not self._stop fails: the loop is left without reading.
LoopExit ==
    /\ loop = "stopping"
    /\ events' = events \o Disconnected
    /\ UNCHANGED writer
    /\ LoopEnds

-----------------------------------------------------------------------------
(* Negotiation against any server: every CAP, AUTHENTICATE, SASL result    *)
(* and 001 line, in any number and order.                                  *)

\* ":s <numeric> me :text"
Numeric(num) == Untagged(<<C("s"), T(num), T("me"), C("text")>>)

\* ":s CAP * <sub> [*] :<caps>"
CapLine(sub, star, caps) ==
    Untagged(<<C("s"), T("CAP"), T("*"), T(sub)>>
             \o (IF star THEN <<T("*")>> ELSE << >>)
             \o (IF caps = << >> THEN <<C("")>>
                 ELSE <<C(caps[1])>> \o [i \in 1..(Len(caps) - 1) |-> T(caps[i + 1])]))

NegLines ==
    {CapLine("LS", TRUE, <<"foo">>), CapLine("LS", TRUE, <<"batch">>),
     CapLine("LS", FALSE, <<"sasl", "server-time">>),
     CapLine("ACK", FALSE, <<"batch">>), CapLine("ACK", FALSE, <<"sasl", "batch">>),
     CapLine("NAK", FALSE, <<"batch">>),
     Untagged(<<T("AUTHENTICATE"), T("+")>>),
     Numeric("903"), Numeric("904"), Numeric("001")}

NegInit == Init /\ on = AllListeners

NegRecvCap ==
    \E l \in NegLines : nrecv < MaxRecvNeg /\ HandleCap(l) /\ UNCHANGED srvVars
NegRecvWelcome ==
    \E l \in NegLines : nrecv < MaxRecvNeg /\ HandleWelcome(l) /\ UNCHANGED srvVars
NegRecvAuthenticate ==
    \E l \in NegLines : nrecv < MaxRecvNeg /\ HandleAuthenticate(l) /\ UNCHANGED srvVars
NegRecvSaslResult ==
    \E l \in NegLines : nrecv < MaxRecvNeg /\ HandleSaslResult(l) /\ UNCHANGED srvVars

NegNext ==
    \/ Connect
    \/ NegRecvCap
    \/ NegRecvWelcome
    \/ NegRecvAuthenticate
    \/ NegRecvSaslResult

SpecNeg == NegInit /\ [][NegNext]_vars

-----------------------------------------------------------------------------
(* Negotiation against a server that answers every step: an LS reply to    *)
(* CAP LS, an ACK or a NAK to CAP REQ, AUTHENTICATE + to AUTHENTICATE PLAIN,*)
(* a result numeric to the SASL payload, and the welcome after CAP END.     *)

\* The commands and numerics the read loop has a handler for.
HandledCmds ==
    {"CAP", "001", "AUTHENTICATE", "PRIVMSG", "JOIN", "PART", "QUIT", "NICK",
     "CHGHOST", "SETNAME", "BATCH", "MODE", "AWAY", "ACCOUNT", "730", "731",
     "352", "354", "353", "311", "312", "317", "319", "330", "338", "318"}
    \cup SaslResults

\* The read loop on a line no handler takes: the next line is read.
HandleOther(l) ==
    /\ ~IsPing(l)
    /\ Upper(Cmd(l.toks)).w \notin HandledCmds
    /\ ReadLine(l)
    /\ events' = Heard(l)
    /\ UNCHANGED <<sent, whois_ref, rx>>
    /\ UNCHANGED capVars
    /\ UNCHANGED aggVars

\* The LS replies of the server: one line, or two with the continuation marker.
SrvLsReplies ==
    {<<CapLine("LS", FALSE, caps)>> :
        caps \in {<< >>, <<"foo">>, <<"batch">>, <<"sasl">>, <<"batch", "sasl">>,
                  <<"foo", "sasl", "server-time">>}}
    \cup {<<CapLine("LS", TRUE, <<"foo">>), CapLine("LS", FALSE, <<"batch", "sasl">>)>>,
          <<CapLine("LS", TRUE, <<"batch">>), CapLine("LS", FALSE, <<"sasl">>)>>,
          <<CapLine("LS", TRUE, <<"sasl">>), CapLine("LS", FALSE, <<"foo">>)>>}

\* The result numerics the server may answer the SASL payload with.
SrvSaslReplies == {"903", "904", "907"}

\* The server reads the next line of the client; w is that line.
SrvRead(w) ==
    /\ srv_pos < Len(sent)
    /\ w = sent[srv_pos + 1]
    /\ srv_pos' = srv_pos + 1
    /\ UNCHANGED <<p, on, writer, loop, sent, events, line, nrecv>>
    /\ UNCHANGED callVars
    /\ UNCHANGED capVars
    /\ UNCHANGED aggVars
    /\ UNCHANGED histVars

SrvAnswerLS ==
    \E w \in Range(sent), reply \in SrvLsReplies :
        SrvRead(w) /\ w.cmd = "CAP LS 302" /\ inflight' = inflight \o reply

SrvAnswerReq ==
    \E w \in Range(sent), sub \in {"ACK", "NAK"} :
        SrvRead(w) /\ IsCapReq(w) /\ inflight' = Append(inflight, CapLine(sub, FALSE, w.arg))

SrvAnswerPlain ==
    \E w \in Range(sent) :
        /\ SrvRead(w) /\ IsAuthPlain(w)
        /\ inflight' = Append(inflight, Untagged(<<T("AUTHENTICATE"), T("+")>>))

SrvAnswerPayload ==
    \E w \in Range(sent), num \in SrvSaslReplies :
        SrvRead(w) /\ IsAuthPayload(w) /\ inflight' = Append(inflight, Numeric(num))

SrvAnswerCapEnd ==
    \E w \in Range(sent) :
        /\ SrvRead(w) /\ IsCapEnd(w)
        /\ inflight' = inflight \o <<Numeric("001"), Numeric("002")>>

\* NICK, USER and JOIN get no answer during the negotiation.
SrvSkip ==
    \E w \in Range(sent) :
        SrvRead(w) /\ w.cmd \in {"NICK", "USER", "JOIN"} /\ UNCHANGED inflight

\* The read loop takes the next line the server sent.
LiveTake(l) == inflight # << >> /\ l = Head(inflight) /\ inflight' = Tail(inflight)
                /\ UNCHANGED srv_pos

LiveRecvCap == \E l \in Range(inflight) : LiveTake(l) /\ HandleCap(l)
LiveRecvWelcome == \E l \in Range(inflight) : LiveTake(l) /\ HandleWelcome(l)
LiveRecvAuthenticate == \E l \in Range(inflight) : LiveTake(l) /\ HandleAuthenticate(l)
LiveRecvSaslResult == \E l \in Range(inflight) : LiveTake(l) /\ HandleSaslResult(l)
LiveRecvOther == \E l \in Range(inflight) : LiveTake(l) /\ HandleOther(l)

LiveServer ==
    \/ SrvAnswerLS
    \/ SrvAnswerReq
    \/ SrvAnswerPlain
    \/ SrvAnswerPayload
    \/ SrvAnswerCapEnd
    \/ SrvSkip

LiveReader ==
    \/ LiveRecvCap
    \/ LiveRecvWelcome
    \/ LiveRecvAuthenticate
    \/ LiveRecvSaslResult
    \/ LiveRecvOther

LiveNext == Connect \/ LiveServer \/ LiveReader

\* The caller connects, the server keeps answering and the read loop keeps reading.
SpecLive ==
    /\ NegInit
    /\ [][LiveNext]_vars
    /\ WF_vars(Connect)
    /\ WF_vars(LiveServer)
    /\ WF_vars(LiveReader)

-----------------------------------------------------------------------------
(* WHOIS replies for two nicks, interleaved in any way.                    *)

\* ":s <numeric> me <nick> <middle...> :<text...>"
WhoisLine(num, nick, middle, text) ==
    Untagged(<<C("s"), T(num), T("me"), T(nick)>> \o [i \in DOMAIN middle |-> T(middle[i])]
             \o <<C(text[1])>> \o [i \in 1..(Len(text) - 1) |-> T(text[i + 1])])

WhoisLines ==
    {WhoisLine("311", "alice", <<"au", "ah", "*">>, <<"Alice", "A">>),
     WhoisLine("311", "bob", <<"bu", "bh", "*">>, <<"Bob">>),
     WhoisLine("312", "bob", <<"srv">>, <<"info">>),
     WhoisLine("317", "alice", <<"5", "100">>, <<"seconds", "idle">>),
     WhoisLine("319", "alice", << >>, <<"@#a", "+#b">>),
     WhoisLine("330", "bob", <<"acct">>, <<"is", "logged", "in", "as">>),
     WhoisLine("338", "alice", << >>, <<"is", "actually", "ah">>),
     WhoisLine("318", "alice", << >>, <<"End">>),
     WhoisLine("318", "bob", << >>, <<"End">>),
     Untagged(<<C("s"), T("318")>>)}

WhoisInit ==
    /\ Init
    /\ p = Profile(NoneVal, NoneVal)
    /\ on.names = "ok"

WhoisRecvNumeric ==
    \E l \in WhoisLines : nrecv < MaxRecvWhois /\ HandleWhoisNumeric(l) /\ UNCHANGED srvVars
WhoisRecvEnd ==
    \E l \in WhoisLines : nrecv < MaxRecvWhois /\ HandleWhoisEnd(l) /\ UNCHANGED srvVars

WhoisNext ==
    \/ Connect
    \/ WhoisRecvNumeric
    \/ WhoisRecvEnd

SpecWhois == WhoisInit /\ [][WhoisNext]_vars

-----------------------------------------------------------------------------
(* BATCH and NAMES lines for two batch ids and three channels.             *)

\* ":s BATCH <ref> [<type>]"
BatchLine(ref, type) == Untagged(<<C("s"), T("BATCH"), T(ref)>> \o type)

\* "@batch=<id> :s 353 me = <channel> :<nicks>" (no tag block when id is "")
NamesLine(id, ch, nicks) ==
    [tags |-> [NoTags EXCEPT !.batch = id],
     toks |-> <<C("s"), T("353"), T("me"), T("="), T(ch)>>
              \o (IF nicks = << >> THEN <<C("")>>
                  ELSE <<C(nicks[1])>> \o [i \in 1..(Len(nicks) - 1) |-> T(nicks[i + 1])])]

BatchLines ==
    {BatchLine("+b1", <<T("NAMES")>>), BatchLine("-b1", << >>), BatchLine("-b2", << >>),
     NamesLine("b1", "#a", <<"x", "y">>), NamesLine("b1", "#b", <<"z">>),
     NamesLine("b1", "#a", <<"w">>), NamesLine("b1", "#c", << >>),
     NamesLine("b2", "#a", <<"v">>), NamesLine("", "#a", <<"u">>)}

BatchInit ==
    /\ Init
    /\ p = Profile(NoneVal, NoneVal)
    /\ on.whois = "ok"

BatchRecvBatch ==
    \E l \in BatchLines : nrecv < MaxRecvBatch /\ HandleBatch(l) /\ UNCHANGED srvVars
BatchRecvNames ==
    \E l \in BatchLines : nrecv < MaxRecvBatch /\ HandleNames(l) /\ UNCHANGED srvVars

BatchNext ==
    \/ Connect
    \/ BatchRecvBatch
    \/ BatchRecvNames

SpecBatch == BatchInit /\ [][BatchNext]_vars

-----------------------------------------------------------------------------
(* MODE lines, with and without a prefix.                                  *)

\* "[:<prefix>] MODE <target> <modes> <args...>"
ModeLine(prefix, target, modes, args) ==
    Untagged((IF prefix = "" THEN << >> ELSE <<C(prefix)>>)
             \o <<T("MODE"), T(target), T(modes)>> \o [i \in DOMAIN args |-> T(args[i])])

ModeLines ==
    {ModeLine(pfx, "#chan", "+o-v", <<"alice", "bob">>) : pfx \in {"", "op!u@h"}}
    \cup {ModeLine(pfx, "&ops", "+vo", <<"bob", "alice">>) : pfx \in {"", "op!u@h"}}
    \cup {ModeLine(pfx, "#chan", "-h+q", <<"alice">>) : pfx \in {"", "op!u@h"}}
    \cup {ModeLine(pfx, "#chan", "+kv", <<"key", "bob">>) : pfx \in {"", "op!u@h"}}
    \cup {ModeLine(pfx, "#chan", "+nt", << >>) : pfx \in {"", "op!u@h"}}
    \cup {ModeLine(pfx, "alice", "+i", << >>) : pfx \in {"", "alice!u@h"}}
    \cup {Untagged(<<T("mode"), T("#chan"), T("o"), T("bob")>>),
          Untagged(<<C("op!u@h"), T("MODE"), T("#chan")>>)}

ModeInit ==
    /\ Init
    /\ p = Profile(NoneVal, NoneVal)
    /\ on = AllListeners

ModeRecv ==
    \E l \in ModeLines : nrecv < MaxRecvMode /\ HandleMode(l) /\ UNCHANGED srvVars

ModeNext ==
    \/ Connect
    \/ ModeRecv

SpecMode == ModeInit /\ [][ModeNext]_vars

-----------------------------------------------------------------------------
(* The caller's commands in any order, before and after connect(), over a  *)
(* transport that may break, with the read loop running and ending.        *)

ChanArgs == {"#a", " #a ", "  "}

CmdLines ==
    {Untagged(<<T("PING"), C("abc")>>),
     Untagged(<<C("irc.srv"), T("NOTICE"), T("me"), C("hi")>>)}

CmdInit ==
    /\ Init
    /\ p = Profile(NoneVal, NoneVal)
    /\ on = AllListeners

\* connect() fails: asyncio.open_connection raises and nothing else happens.
ConnectFails ==
    /\ writer = "none"
    /\ ~raised
    /\ raised' = TRUE
    /\ call' = Call("connect", << >>)
    /\ UNCHANGED <<p, on, writer, stop, debug, monitor, loop, ncalls, tasks, sent,
                   events, line, nrecv>>
    /\ UNCHANGED capVars
    /\ UNCHANGED aggVars
    /\ UNCHANGED histVars
    /\ UNCHANGED srvVars

CmdJoin == \E ch \in ChanArgs : ncalls < MaxCalls /\ join(ch)
CmdPart == \E ch \in ChanArgs, reason \in {NoneVal, "bye"} : ncalls < MaxCalls /\ part(ch, reason)
CmdSetTopic == \E ch \in ChanArgs : ncalls < MaxCalls /\ set_topic(ch, "hello")
CmdSetModes == \E ch \in ChanArgs : ncalls < MaxCalls /\ set_modes(ch, "+m")
CmdSendPrivmsg == \E target \in ChanArgs : ncalls < MaxCalls /\ send_privmsg(target, "hi")
CmdMonitorSet == \E nicks \in {<<"x">>, << >>} : ncalls < MaxCalls /\ monitor_set(nicks)
CmdMonitorAdd == ncalls < MaxCalls /\ monitor_add(<<"x">>)
CmdMonitorRemove == ncalls < MaxCalls /\ monitor_remove(<<"x">>)
CmdClose == ncalls < MaxCalls /\ close

CmdRecvPing == \E l \in CmdLines : nrecv < MaxRecvCmd /\ HandlePing(l) /\ UNCHANGED srvVars
CmdRecvOther == \E l \in CmdLines : nrecv < MaxRecvCmd /\ HandleOther(l) /\ UNCHANGED srvVars

CmdNext ==
    \/ Connect
    \/ ConnectFails
    \/ SetDebug
    \/ CmdJoin
    \/ CmdPart
    \/ CmdSetTopic
    \/ CmdSetModes
    \/ CmdSendPrivmsg
    \/ CmdMonitorSet
    \/ CmdMonitorAdd
    \/ CmdMonitorRemove
    \/ CmdClose
    \/ CmdRecvPing
    \/ CmdRecvOther
    \/ LoopEof
    \/ LoopError
    \/ LoopExit

SpecCmd == CmdInit /\ [][CmdNext]_vars

-----------------------------------------------------------------------------
(* monitor_set, monitor_add and monitor_remove on a connected manager.     *)

MonitorArgs == {<<"x", "y">>, <<"y", "z">>, <<" z ", "">>, <<"x", "x">>, << >>}

MonInit == CmdInit

MonAdd == \E nicks \in MonitorArgs : ncalls < MaxMonitorCalls /\ monitor_add(nicks)
MonRemove == \E nicks \in MonitorArgs : ncalls < MaxMonitorCalls /\ monitor_remove(nicks)
MonSet == \E nicks \in MonitorArgs : ncalls < MaxMonitorCalls /\ monitor_set(nicks)

MonNext ==
    \/ Connect
    \/ MonAdd
    \/ MonRemove
    \/ MonSet

SpecMonitor == MonInit /\ [][MonNext]_vars

-----------------------------------------------------------------------------
(* Lines of every kind, with and without a label tag, with the debug echo  *)
(* on or off.                                                              *)

\* The line l carrying the tag label=<label>.
Labelled(label, l) == [l EXCEPT !.tags.label = label]

DispatchBase ==
    {<<T("PING"), C("abc")>>,
     <<C("irc.srv"), T("PING"), C("abc")>>,
     <<C("irc.srv"), T("NOTICE"), T("me"), C("hi")>>,
     <<C("irc.srv"), T("332"), T("me"), T("#chan"), C("hi")>>,
     <<C("irc.srv"), T("421"), T("me"), T("FOO"), C("Unknown")>>,
     <<C("irc.srv"), T("730"), T("me"), C("a!u@h,b")>>,
     <<C("irc.srv"), T("731"), T("me"), C("a,b")>>,
     <<C("op!u@h"), T("MODE"), T("#chan"), T("+o-v"), T("alice"), T("bob")>>,
     <<C("n!u@h"), T("AWAY"), C("hi")>>,
     <<C("n!u@h"), T("AWAY")>>,
     <<C("n!u@h"), T("ACCOUNT"), T("*")>>,
     <<C("irc.srv"), T("352"), T("me"), T("#chan"), T("u"), T("h"), T("irc.srv"),
       T("nick"), T("G"), C("0"), T("hi")>>,
     <<C("irc.srv"), T("354"), T("me"), T("1"), T("#chan"), T("u"), T("h"), T("nick")>>,
     <<C("irc.srv"), T("353"), T("me"), T("="), T("#chan"), C("alice"), T("bob")>>}

DispatchLines == {Labelled(label, Untagged(toks)) : label \in {"", "L1"}, toks \in DispatchBase}

DispInit == CmdInit

DispRecv(l) == l \in DispatchLines /\ nrecv < MaxRecvDispatch /\ UNCHANGED srvVars

DispRecvPing == \E l \in DispatchLines : DispRecv(l) /\ HandlePing(l)
DispRecvOther == \E l \in DispatchLines : DispRecv(l) /\ HandleOther(l)
DispRecvMonitor == \E l \in DispatchLines : DispRecv(l) /\ HandleMonitorNumeric(l)
DispRecvMode == \E l \in DispatchLines : DispRecv(l) /\ HandleMode(l)
DispRecvAway == \E l \in DispatchLines : DispRecv(l) /\ HandleAway(l)
DispRecvAccount == \E l \in DispatchLines : DispRecv(l) /\ HandleAccount(l)
DispRecvWho == \E l \in DispatchLines : DispRecv(l) /\ HandleWho(l)
DispRecvWhox == \E l \in DispatchLines : DispRecv(l) /\ HandleWhox(l)
DispRecvNames == \E l \in DispatchLines : DispRecv(l) /\ HandleNames(l)

DispNext ==
    \/ Connect
    \/ SetDebug
    \/ DispRecvPing
    \/ DispRecvOther
    \/ DispRecvMonitor
    \/ DispRecvMode
    \/ DispRecvAway
    \/ DispRecvAccount
    \/ DispRecvWho
    \/ DispRecvWhox
    \/ DispRecvNames

SpecDispatch == DispInit /\ [][DispNext]_vars

-----------------------------------------------------------------------------
(* Lines that lack what their handler reads, lines of every handler, and a *)
(* line longer than the stream limit, with listeners that return or raise. *)

RobustLines ==
    {Untagged(toks) : toks \in
        {<< >>,
         <<T("@label=L1")>>,
         <<C("irc.srv")>>,
         <<T("PING")>>,
         <<T("PING"), C("abc")>>,
         <<T("CAP")>>,
         <<C("s"), T("CAP"), T("*"), T("LS")>>,
         <<T("001")>>,
         <<C("s"), T("311"), T("me")>>,
         <<C("s"), T("318")>>,
         <<T("352")>>,
         <<T("354")>>,
         <<T("353")>>,
         <<T("MODE")>>,
         <<T("AWAY")>>,
         <<T("ACCOUNT")>>,
         <<T("730")>>,
         <<T("PRIVMSG")>>,
         <<C("n!u@h"), T("PRIVMSG"), T("#a"), C("hi")>>,
         <<T("JOIN")>>,
         <<C("n!u@h"), T("PART")>>,
         <<T("CHGHOST")>>,
         <<T("BATCH")>>,
         <<T("AUTHENTICATE")>>,
         <<T("904")>>,
         <<T("FOO")>>,
         <<C("irc.srv"), T("NOTICE"), T("me"), C(LongWord)>>}}
    \cup {BatchLine("-b1", << >>), NamesLine("b1", "#a", <<"x">>)}

RobustInit ==
    /\ Constructed
    /\ p = Profile(NoneVal, NoneVal)
    /\ on \in {AllListeners, AllRaising}

RobustRecv(l) == l \in RobustLines /\ nrecv < MaxRecvRobust /\ UNCHANGED srvVars

RobustRecvPing == \E l \in RobustLines : RobustRecv(l) /\ HandlePing(l)
RobustRecvCap == \E l \in RobustLines : RobustRecv(l) /\ HandleCap(l)
RobustRecvWelcome == \E l \in RobustLines : RobustRecv(l) /\ HandleWelcome(l)
RobustRecvAuthenticate == \E l \in RobustLines : RobustRecv(l) /\ HandleAuthenticate(l)
RobustRecvSaslResult == \E l \in RobustLines : RobustRecv(l) /\ HandleSaslResult(l)
RobustRecvWhoisNumeric == \E l \in RobustLines : RobustRecv(l) /\ HandleWhoisNumeric(l)
RobustRecvWhoisEnd == \E l \in RobustLines : RobustRecv(l) /\ HandleWhoisEnd(l)
RobustRecvBatch == \E l \in RobustLines : RobustRecv(l) /\ HandleBatch(l)
RobustRecvNames == \E l \in RobustLines : RobustRecv(l) /\ HandleNames(l)
RobustRecvMode == \E l \in RobustLines : RobustRecv(l) /\ HandleMode(l)
RobustRecvMonitor == \E l \in RobustLines : RobustRecv(l) /\ HandleMonitorNumeric(l)
RobustRecvAway == \E l \in RobustLines : RobustRecv(l) /\ HandleAway(l)
RobustRecvAccount == \E l \in RobustLines : RobustRecv(l) /\ HandleAccount(l)
RobustRecvWho == \E l \in RobustLines : RobustRecv(l) /\ HandleWho(l)
RobustRecvWhox == \E l \in RobustLines : RobustRecv(l) /\ HandleWhox(l)
RobustRecvPrivmsg == \E l \in RobustLines : RobustRecv(l) /\ HandlePrivmsg(l)
RobustRecvMembership == \E l \in RobustLines : RobustRecv(l) /\ HandleMembership(l)
RobustRecvOther == \E l \in RobustLines : RobustRecv(l) /\ HandleOther(l)
RobustRecvOverlong == \E l \in RobustLines : RobustRecv(l) /\ ReadOverlong(l)

RobustNext ==
    \/ Connect
    \/ RobustRecvPing
    \/ RobustRecvCap
    \/ RobustRecvWelcome
    \/ RobustRecvAuthenticate
    \/ RobustRecvSaslResult
    \/ RobustRecvWhoisNumeric
    \/ RobustRecvWhoisEnd
    \/ RobustRecvBatch
    \/ RobustRecvNames
    \/ RobustRecvMode
    \/ RobustRecvMonitor
    \/ RobustRecvAway
    \/ RobustRecvAccount
    \/ RobustRecvWho
    \/ RobustRecvWhox
    \/ RobustRecvPrivmsg
    \/ RobustRecvMembership
    \/ RobustRecvOther
    \/ RobustRecvOverlong

SpecRobust == RobustInit /\ [][RobustNext]_vars

-----------------------------------------------------------------------------
(* A session that is closed in the middle of negotiation and aggregation,  *)
(* and connect() called again on the same manager.                         *)

SessionLines ==
    {CapLine("LS", FALSE, <<"sasl", "batch">>),
     CapLine("ACK", FALSE, <<"sasl", "batch">>),
     CapLine("NAK", FALSE, <<"batch">>),
     Untagged(<<T("AUTHENTICATE"), T("+")>>),
     Numeric("001"),
     WhoisLine("312", "bob", <<"srv">>, <<"info">>),
     BatchLine("+b1", <<T("NAMES")>>),
     NamesLine("b1", "#a", <<"x">>)}

SessionInit ==
    /\ Init
    /\ p = Profile("pw", NoneVal)
    /\ on = AllListeners

SessionRecv(l) == l \in SessionLines /\ nrecv < MaxRecvSession /\ UNCHANGED srvVars

SessionRecvCap == \E l \in SessionLines : SessionRecv(l) /\ HandleCap(l)
SessionRecvAuthenticate == \E l \in SessionLines : SessionRecv(l) /\ HandleAuthenticate(l)
SessionRecvWelcome == \E l \in SessionLines : SessionRecv(l) /\ HandleWelcome(l)
SessionRecvWhois == \E l \in SessionLines : SessionRecv(l) /\ HandleWhoisNumeric(l)
SessionRecvBatch == \E l \in SessionLines : SessionRecv(l) /\ HandleBatch(l)
SessionRecvNames == \E l \in SessionLines : SessionRecv(l) /\ HandleNames(l)
SessionClose == ncalls < MaxSessionCalls /\ close
SessionReconnect == Count(sent, LAMBDA w : w.cmd = "CAP LS 302") < MaxConnects /\ Reconnect

SessionNext ==
    \/ Connect
    \/ SessionReconnect
    \/ SessionRecvCap
    \/ SessionRecvAuthenticate
    \/ SessionRecvWelcome
    \/ SessionRecvWhois
    \/ SessionRecvBatch
    \/ SessionRecvNames
    \/ SessionClose
    \/ LoopEof
    \/ LoopExit

SpecSession == SessionInit /\ [][SessionNext]_vars

-----------------------------------------------------------------------------
(* SASL against an answering server that offers sasl and answers the       *)
(* payload with any result numeric, with the debug echo on or off and the  *)
(* caller's commands in between.                                           *)

AuthLsReplies ==
    {<<CapLine("LS", FALSE, <<"sasl">>)>>, <<CapLine("LS", FALSE, <<"batch", "sasl">>)>>}

AuthInit ==
    /\ Init
    /\ p = Profile("pw", NoneVal)
    /\ on = AllListeners

AuthAnswerLS ==
    \E w \in Range(sent), reply \in AuthLsReplies :
        SrvRead(w) /\ w.cmd = "CAP LS 302" /\ inflight' = inflight \o reply

AuthAnswerPayload ==
    \E w \in Range(sent), num \in SaslResults :
        SrvRead(w) /\ IsAuthPayload(w) /\ inflight' = Append(inflight, Numeric(num))

\* NICK, USER, JOIN and PRIVMSG get no answer.
AuthSkip ==
    \E w \in Range(sent) :
        SrvRead(w) /\ w.cmd \in {"NICK", "USER", "JOIN", "PRIVMSG"} /\ UNCHANGED inflight

AuthJoin == ncalls < MaxAuthCalls /\ join("#a") /\ UNCHANGED srvVars
AuthPrivmsg == ncalls < MaxAuthCalls /\ send_privmsg("NickServ", "AUTHENTICATE abc")
                /\ UNCHANGED srvVars

AuthNext ==
    \/ Connect
    \/ SetDebug
    \/ AuthAnswerLS
    \/ SrvAnswerReq
    \/ SrvAnswerPlain
    \/ AuthAnswerPayload
    \/ SrvAnswerCapEnd
    \/ AuthSkip
    \/ LiveRecvCap
    \/ LiveRecvWelcome
    \/ LiveRecvAuthenticate
    \/ LiveRecvSaslResult
    \/ LiveRecvOther
    \/ AuthJoin
    \/ AuthPrivmsg

SpecAuth == AuthInit /\ [][AuthNext]_vars

-----------------------------------------------------------------------------
(* The SASL exchange for profiles that differ in sasl_user, user and        *)
(* password, against an answering server that offers sasl.                 *)

ProfileOf(user, password, sasl_user) == [Profile(password, sasl_user) EXCEPT !.user = user]

PayloadInit ==
    /\ Constructed
    /\ p \in {ProfileOf(user, pw, su) :
                 user \in {"peach", ""}, pw \in {"pw", "p"}, su \in {NoneVal, "", "su"}}
    /\ on = AllListeners

PayloadNext ==
    \/ Connect
    \/ SetDebug
    \/ AuthAnswerLS
    \/ SrvAnswerReq
    \/ SrvAnswerPlain
    \/ AuthAnswerPayload
    \/ SrvAnswerCapEnd
    \/ AuthSkip
    \/ LiveRecvCap
    \/ LiveRecvWelcome
    \/ LiveRecvAuthenticate
    \/ LiveRecvSaslResult
    \/ LiveRecvOther

SpecPayload == PayloadInit /\ [][PayloadNext]_vars

-----------------------------------------------------------------------------
(* has_cap over the CAP lines of a negotiation: LS, ACK with and without    *)
(* the ':' before the capability list, NAK.                                *)

MaxRecvAck == 3

\* has_cap
has_cap(name) == name \in active_caps

AckLines ==
    {CapLine("LS", FALSE, <<"batch", "sasl">>),
     CapLine("ACK", FALSE, <<"batch">>),
     CapLine("ACK", FALSE, <<"sasl", "server-time">>),
     Untagged(<<C("s"), T("CAP"), T("*"), T("ACK"), T("batch")>>),
     CapLine("NAK", FALSE, <<"foo">>),
     Numeric("001")}

AckInit == Init /\ on = AllListeners

AckRecvCap == \E l \in AckLines : nrecv < MaxRecvAck /\ HandleCap(l) /\ UNCHANGED srvVars
AckRecvWelcome == \E l \in AckLines : nrecv < MaxRecvAck /\ HandleWelcome(l) /\ UNCHANGED srvVars

AckNext ==
    \/ Connect
    \/ AckRecvCap
    \/ AckRecvWelcome

SpecAck == AckInit /\ [][AckNext]_vars

-----------------------------------------------------------------------------
(* PRIVMSG lines with and without a time tag.                              *)

MaxRecvTime == 2

TimeTags ==
    {"", "2023-10-11T12:34:56.789Z", "2023-10-11T14:34:56.789+02:00",
     "1970-01-01T00:00:00.000Z", "1969-12-31T23:59:59Z", "not-a-time"}

\* "@time=<t> :n!u@h PRIVMSG #a :hi", untagged for the empty t.
TimedPrivmsg(t) ==
    [tags |-> [NoTags EXCEPT !.time = t],
     toks |-> <<C("n!u@h"), T("PRIVMSG"), T("#a"), C("hi")>>]

TimeLines ==
    {TimedPrivmsg(t) : t \in TimeTags}
    \cup {[tags |-> [NoTags EXCEPT !.time = "2023-10-11T12:34:56.789Z"],
           toks |-> <<C("n!u@h"), T("PRIVMSG"), T("#a")>>]}

TimeInit ==
    /\ Constructed
    /\ p = Profile(NoneVal, NoneVal)
    /\ on \in {[AllListeners EXCEPT !.message = m] : m \in {"none", "ok", "raises"}}

TimeRecvPrivmsg ==
    \E l \in TimeLines : nrecv < MaxRecvTime /\ HandlePrivmsg(l) /\ UNCHANGED srvVars

TimeNext ==
    \/ Connect
    \/ SetDebug
    \/ TimeRecvPrivmsg

SpecTime == TimeInit /\ [][TimeNext]_vars

-----------------------------------------------------------------------------
(* The channel commands called while negotiation and aggregation state is  *)
(* held: capabilities acknowledged, WHOIS fields and batched names          *)
(* buffered, nicks tracked.                                                *)

MaxRecvFrame == 3
MaxFrameCalls == 2

FrameLines ==
    {CapLine("ACK", FALSE, <<"sasl", "batch">>),
     Numeric("001"),
     WhoisLine("312", "bob", <<"srv">>, <<"info">>),
     NamesLine("b1", "#a", <<"x">>)}

FrameInit ==
    /\ Init
    /\ p = Profile("pw", NoneVal)
    /\ on = AllListeners

FrameRecv(l) == l \in FrameLines /\ nrecv < MaxRecvFrame /\ UNCHANGED srvVars
FrameCall == ncalls < MaxFrameCalls /\ UNCHANGED srvVars

FrameRecvCap == \E l \in FrameLines : FrameRecv(l) /\ HandleCap(l)
FrameRecvWelcome == \E l \in FrameLines : FrameRecv(l) /\ HandleWelcome(l)
FrameRecvWhois == \E l \in FrameLines : FrameRecv(l) /\ HandleWhoisNumeric(l)
FrameRecvNames == \E l \in FrameLines : FrameRecv(l) /\ HandleNames(l)
FrameMonitorAdd == FrameCall /\ monitor_add(<<"x">>)
FrameJoin == \E ch \in {"#a", "  "} : FrameCall /\ join(ch)
FramePart == FrameCall /\ part("#a", "bye")
FrameSetTopic == FrameCall /\ set_topic("#a", "hello")
FrameSetModes == FrameCall /\ set_modes("#a", "+m")
FrameSendPrivmsg == FrameCall /\ send_privmsg("#a", "hi")

FrameNext ==
    \/ Connect
    \/ FrameRecvCap
    \/ FrameRecvWelcome
    \/ FrameRecvWhois
    \/ FrameRecvNames
    \/ FrameMonitorAdd
    \/ FrameJoin
    \/ FramePart
    \/ FrameSetTopic
    \/ FrameSetModes
    \/ FrameSendPrivmsg

SpecFrame == FrameInit /\ [][FrameNext]_vars

-----------------------------------------------------------------------------
(* Commands issued from concurrent tasks. _send writes its line and then    *)
(* awaits drain(): while the transport's buffer is above its high-water     *)
(* mark the task is suspended there and the other tasks run; _send takes    *)
(* no lock and there is no queue of outgoing lines. A task whose drain()    *)
(* returns at once is the case where its resuming step follows directly.   *)

MaxRecvConc == 2

ConcLines == {CapLine("NAK", FALSE, <<"batch">>), Numeric("001")}

ConcNicks == {<<"x">>, <<"y">>, << >>}

ConcInit ==
    /\ Init
    /\ p = Profile(NoneVal, NoneVal)
    /\ on = AllListeners

\* The read loop is not suspended inside a handler.
LoopFree == tasks["loop"].pc # "await"

\* What a step of a consumer task leaves alone.
TaskFrame ==
    /\ UNCHANGED <<p, on, writer, stop, debug, loop, raised, ncalls, call, line, nrecv>>
    /\ UNCHANGED capVars
    /\ UNCHANGED aggVars
    /\ UNCHANGED histVars
    /\ UNCHANGED srvVars

\* A task runs join(channel): its one _send.
TaskJoin(id, channel) ==
    /\ tasks[id].pc = "idle"
    /\ writer = "open"
    /\ sent' = Send(sent, JoinLines(channel))
    /\ events' = events \o SendEcho(Written)
    /\ tasks' = [tasks EXCEPT ![id] = Task("join", <<channel>>, "done", << >>,
                                           [i \in 1..Len(Written) |-> Len(sent) + i])]
    /\ UNCHANGED monitor
    /\ TaskFrame

\* A task runs monitor_set(nicks) up to the drain() of its first _send:
\* MONITOR C is written, the tracked set is not yet replaced.
TaskMonitorSet(id, nicks) ==
    LET new == Cleaned(nicks)
        plus == IF new = {} THEN << >> ELSE <<MonitorLine("+", new)>>
    IN /\ tasks[id].pc = "idle"
       /\ writer = "open"
       /\ sent' = Send(sent, <<Wire("MONITOR", <<"C">>)>>)
       /\ events' = events \o SendEcho(Written)
       /\ tasks' = [tasks EXCEPT ![id] = Task("monitor_set", nicks, "await", plus,
                                              <<Len(sent) + 1>>)]
       /\ UNCHANGED monitor
       /\ TaskFrame

\* monitor_set after the drain() of its first _send: the tracked set is
\* replaced and MONITOR + is written when the set is not empty.
MonitorSetResume(id) ==
    LET t == tasks[id]
    IN /\ t.pc = "await"
       /\ t.op = "monitor_set"
       /\ writer = "open"
       /\ monitor' = Cleaned(t.args)
       /\ sent' = Send(sent, t.todo)
       /\ events' = events \o SendEcho(Written)
       /\ tasks' = [tasks EXCEPT ![id] =
                       Task(t.op, t.args, "done", << >>,
                            t.at \o [i \in 1..Len(Written) |-> Len(sent) + i])]
       /\ TaskFrame

\* The read loop on numeric 001, up to the drain() of the first _send of
\* _join_initial: the first JOIN is written, the others are still to send.
WelcomeSuspending(l) ==
    LET joins == IF JoinOnWelcome THEN JoinInitialLines ELSE << >>
    IN /\ Cmd(l.toks) = T("001")
       /\ writer = "open"
       /\ loop = "running"
       /\ Readable(l)
       /\ line' = l
       /\ nrecv' = nrecv + 1
       /\ seen' = seen \cup Kinds(l)
       /\ loop' = AfterLine
       /\ welcome_received' = TRUE
       /\ sent' = IF joins = << >> THEN sent ELSE Send(sent, <<Head(joins)>>)
       /\ events' = Heard(l) \o Emit("status", <<"001 welcome received">>) \o SendEcho(Written)
       /\ tasks' = IF joins = << >> THEN tasks
                   ELSE [tasks EXCEPT !["loop"] =
                            Task("_join_initial", << >>,
                                 IF Len(joins) > 1 THEN "await" ELSE "done",
                                 Tail(joins), <<Len(sent) + 1>>)]
       /\ UNCHANGED <<p, on, writer, stop, debug, monitor, raised, ncalls, call>>
       /\ UNCHANGED <<cap_negotiating, available_caps, requested_caps, active_caps,
                      cap_ended, cap_ls_pending, sasl_in_progress, sasl_payload_sent,
                      whois_ref, rx>>
       /\ UNCHANGED aggVars

\* _join_initial after the drain() of a _send: the next JOIN is written.
JoinInitialResume ==
    LET t == tasks["loop"]
    IN /\ t.pc = "await"
       /\ t.op = "_join_initial"
       /\ writer = "open"
       /\ sent' = Send(sent, <<Head(t.todo)>>)
       /\ events' = events \o SendEcho(Written)
       /\ tasks' = [tasks EXCEPT !["loop"] =
                       Task(t.op, t.args, IF Len(t.todo) > 1 THEN "await" ELSE "done",
                            Tail(t.todo), Append(t.at, Len(sent) + 1))]
       /\ UNCHANGED monitor
       /\ TaskFrame

ConcRecv(l) == l \in ConcLines /\ nrecv < MaxRecvConc /\ LoopFree /\ UNCHANGED srvVars

ConcRecvCap == \E l \in ConcLines : ConcRecv(l) /\ HandleCap(l)
ConcRecvWelcome == \E l \in ConcLines : ConcRecv(l) /\ WelcomeSuspending(l)
ConcJoin == \E id \in {"t1", "t2"} : TaskJoin(id, "#c")
ConcMonitorSet == \E id \in {"t1", "t2"}, nicks \in ConcNicks : TaskMonitorSet(id, nicks)
ConcMonitorSetResume == \E id \in {"t1", "t2"} : MonitorSetResume(id)

ConcNext ==
    \/ Connect
    \/ SetDebug
    \/ ConcRecvCap
    \/ ConcRecvWelcome
    \/ JoinInitialResume
    \/ ConcJoin
    \/ ConcMonitorSet
    \/ ConcMonitorSetResume

SpecConc == ConcInit /\ [][ConcNext]_vars

-----------------------------------------------------------------------------
(* Properties of the negotiation (SpecNeg).                                *)

\* The last line handled is a CAP LS line.
LineIsCapLS ==
    LET r == Rest(line.toks) IN Len(r) > 2 /\ r[1] = T("CAP") /\ r[3] = T("LS")

\* The profile has credentials: a password or a SASL user name.
HasCredentials == Truthy(p.password) \/ Truthy(p.sasl_user)

\* C1: whatever lines are received, CAP END is transmitted at most once.
C1_CapEndAtMostOnce == Count(sent, IsCapEnd) <= 1

\* CAP END was sent once although a NAK and a 903 were both handled.
C1_Witness ==
    /\ Count(sent, IsCapEnd) = 1
    /\ {"NAK", "903"} \subseteq seen

\* C2: an AUTHENTICATE line is transmitted only after a CAP ACK containing sasl
\* was received and with credentials configured, and AUTHENTICATE PLAIN is
\* transmitted only in the handling of such an ACK.
C2_AuthenticateOnlyAfterSaslAck ==
    /\ [](\A i \in DOMAIN sent :
            IsAuthenticate(sent[i]) => "ACK-sasl" \in seen /\ HasCredentials)
    /\ [][Count(sent', IsAuthPlain) > Count(sent, IsAuthPlain)
            => "ACK-sasl" \in Kinds(line')]_vars

\* The SASL payload has been transmitted.
C2_Witness == \E i \in DOMAIN sent : IsAuthPayload(sent[i])

\* C3: every initial JOIN is transmitted after 001 was received and after
\* CAP END was transmitted.
C3_JoinOnlyAfterWelcomeAndCapEnd ==
    \A i \in DOMAIN sent :
        IsJoin(sent[i]) =>
            /\ "001" \in seen
            /\ \E j \in 1..(i - 1) : IsCapEnd(sent[j])

\* 001 came first, then a NAK ended the negotiation and the JOINs followed.
C3_Witness ==
    /\ nrecv = 2
    /\ seen = {"001", "NAK"}
    /\ line = CapLine("NAK", FALSE, <<"batch">>)
    /\ IsJoin(Last(sent))

\* C4: once 001 was received and CAP END was transmitted, in either order, a
\* JOIN has been transmitted for every channel of the profile, in its order.
C4_JoinedOnceBothHappened ==
    ("001" \in seen /\ Count(sent, IsCapEnd) > 0) =>
        LET joins == SelectSeq(sent, IsJoin)
        IN /\ Len(joins) >= Len(p.channels)
           /\ SubSeq(joins, 1, Len(p.channels)) = JoinInitialLines

\* CAP END was transmitted first (on a NAK), 001 came later and the JOINs followed.
C4_Witness ==
    /\ nrecv = 2
    /\ seen = {"001", "NAK"}
    /\ line = Numeric("001")
    /\ SelectSeq(sent, IsJoin) = <<Wire("JOIN", <<"#a">>), Wire("JOIN", <<"#b">>)>>

\* C6: after any CAP LS line, the requested set is desired \cap available.
C6_RequestedIsDesiredAvailable ==
    LineIsCapLS => requested_caps = CapWant \cap available_caps

\* C7: whatever lines are received, CAP REQ is transmitted at most once.
C7_CapReqAtMostOnce == Count(sent, IsCapReq) <= 1

\* A NAK answered the CAP REQ, and a later LS line offered another desired
\* capability, which was not requested.
C7_Witness ==
    /\ seen = {"LS", "NAK"}
    /\ Len(sent) = 5
    /\ IsCapReq(sent[4])
    /\ IsCapEnd(sent[5])
    /\ LineIsCapLS
    /\ (CapWant \cap available_caps) \ requested_caps # {}

-----------------------------------------------------------------------------
(* Properties of the negotiation against an answering server (SpecLive).   *)

\* C5: against a server that answers every step, the negotiation ends: from
\* some point on CAP END has been transmitted, exactly once.
C5_NegotiationEnds == <>[](cap_ended /\ Count(sent, IsCapEnd) = 1)

\* The whole SASL exchange ran, failed with 904, and CAP END went out once.
C5_Witness ==
    /\ "904" \in seen
    /\ \E i \in DOMAIN sent : IsAuthPayload(sent[i])
    /\ Count(sent, IsCapEnd) = 1

-----------------------------------------------------------------------------
(* Properties of the WHOIS aggregation (SpecWhois).                        *)

\* The nick a 318 line names: "318 <me> <nick> :End of WHOIS list".
EndOfWhoisFor(l) ==
    LET r == Rest(l.toks)
    IN IF Len(r) >= 3 /\ r[1] = T("318") THEN {r[3]} ELSE {}

\* C8: with a whois listener, 318 for nick N emits exactly one whois event
\* (N, map), the map holding the fields the 311/312/317/319/330/338 lines gave
\* for N since N's previous 318; afterwards N has no accumulator; the fields of
\* any other nick M are not in N's map and M's accumulator stays as it was.
C8_WhoisAggregatedPerNick ==
    [][\A N \in EndOfWhoisFor(line') :
          on.whois = "ok" =>
            /\ events' = Append(events, Ev("whois", <<N, Get(whois_ref, N, << >>)>>))
            /\ N \notin DOMAIN whois_buf'
            /\ \A M \in (DOMAIN whois_ref) \ {N} :
                 M \in DOMAIN whois_buf' /\ whois_buf'[M] = whois_ref[M]]_vars

-----------------------------------------------------------------------------
(* Properties of BATCH and NAMES (SpecBatch).                              *)

\* The batch id a closing line names: "BATCH -<id>".
ClosingId(l) ==
    LET r == Rest(l.toks)
    IN IF Len(r) >= 2 /\ r[1] = T("BATCH") /\ BatchIdent(r[2]).sign = "-"
       THEN {BatchIdent(r[2]).id} ELSE {}

\* The last line handled is a 353 line tagged with a batch id.
IsTaggedNames(l) ==
    LET r == Rest(l.toks) IN Len(r) > 0 /\ r[1] = T("353") /\ l.tags.batch # ""

\* The places in log L where a channel occurs for the first time, in order.
FirstSeen(L) ==
    SelectSeq([i \in DOMAIN L |-> i], LAMBDA i : \A j \in 1..(i - 1) : L[j].ch # L[i].ch)

\* The nicks log L holds for channel ch, in receipt order.
RECURSIVE NicksOf(_, _)
NicksOf(L, ch) ==
    IF L = << >> THEN << >>
    ELSE (IF Head(L).ch = ch THEN Head(L).nicks ELSE << >>) \o NicksOf(Tail(L), ch)

\* One names event per channel of log L, in first-seen channel order, each
\* with the channel's nicks in receipt order.
NamesPerChannel(L) ==
    [k \in DOMAIN FirstSeen(L) |->
        Ev("names", <<L[FirstSeen(L)[k]].ch, NicksOf(L, L[FirstSeen(L)[k]].ch)>>)]

-----------------------------------------------------------------------------
(* Properties of channel MODE (SpecMode).                                  *)

\* The channel, mode string M and argument list A of a channel MODE line:
\* "[:prefix] MODE <channel> <M> <A...>".
ChannelModeOf(l) ==
    LET r == Rest(l.toks)
    IN IF Len(r) >= 3 /\ Upper(r[1]) = T("MODE") /\ IsChannelName(r[2])
       THEN {[ch |-> r[2], M |-> r[3], A |-> SubSeq(r, 4, Len(r))]}
       ELSE {}

\* C10: for every channel MODE line, with or without a prefix, the mode_users
\* event lists, in order, one (add, letter, nick) entry per letter of M in
\* {q,a,o,h,v}, add being the latest sign and nick the next unused argument of A.
C10_ModeUsersFollowModeString ==
    [][nrecv' = nrecv + 1 =>
          \A m \in ChannelModeOf(line') :
             events' = events \o (IF ModeChanges(m.M, m.A) = << >> THEN << >>
                                  ELSE <<Ev("mode_users", <<m.ch, ModeChanges(m.M, m.A)>>)>>)]_vars

-----------------------------------------------------------------------------
(* Properties of the MONITOR commands (SpecMonitor).                       *)

\* The requested nicks of the caller's last call: trimmed, the empty ones left out.
Requested(c) == {Strip(c.args[i]) : i \in DOMAIN c.args} \ {""}

\* w is a MONITOR line with the given sign that lists exactly the nicks of S,
\* each once.
ListsExactly(w, sign, S) ==
    /\ w.cmd = "MONITOR"
    /\ w.arg[1] = sign
    /\ Range(Tail(w.arg)) = S
    /\ Len(w.arg) = 1 + Cardinality(S)

\* What a monitor call on a connected manager must do for the delta D with the
\* tracked set becoming M: one line listing D, or nothing when D is empty.
DeltaOnly(sign, D, M) ==
    /\ monitor' = M
    /\ IF D = {} THEN sent' = sent
       ELSE /\ Len(sent') = Len(sent) + 1
            /\ SubSeq(sent', 1, Len(sent)) = sent
            /\ ListsExactly(Last(sent'), sign, D)

\* C11: on a connected manager every monitor_add transmits one MONITOR + line
\* listing exactly the requested nicks that are not tracked, every
\* monitor_remove one MONITOR - line listing exactly the requested nicks that
\* are tracked, nothing when that delta is empty, and the tracked set is
\* updated by the delta.
C11_MonitorDeltaOnly ==
    [][(ncalls' = ncalls + 1 /\ writer = "open") =>
          /\ call'.op = "monitor_add" =>
                DeltaOnly("+", Requested(call') \ monitor,
                          monitor \cup Requested(call'))
          /\ call'.op = "monitor_remove" =>
                DeltaOnly("-", Requested(call') \cap monitor,
                          monitor \ Requested(call'))]_vars

\* monitor_add([x, y]) then monitor_add([y, z]) were the last two
\* transmissions: MONITOR + x,y and then MONITOR + z alone.
C11_Witness ==
    /\ ncalls >= 2
    /\ call = Call("monitor_add", <<"y", "z">>)
    /\ Len(sent) >= 2
    /\ sent[Len(sent) - 1] = Wire("MONITOR", <<"+", "x", "y">>)
    /\ Last(sent) = Wire("MONITOR", <<"+", "z">>)
    /\ monitor = {"x", "y", "z"}

-----------------------------------------------------------------------------
(* Properties of the caller's commands and of the read loop's end (SpecCmd). *)

IsQuit(w) == w.cmd = "QUIT"
IsQuitEcho(e) == e = Ev("status", <<">>", Wire("QUIT", <<"bye">>)>>)

\* The step is a call of one of the methods ops.
CallOf(ops) == ncalls' = ncalls + 1 /\ call'.op \in ops

\* C12: close() never raises; on an open connection it transmits QUIT, on a
\* connection close() has closed it transmits nothing, and QUIT is never
\* transmitted twice.
C12_CloseTwiceOneQuit ==
    /\ [](Count(sent, IsQuit) <= 1)
    /\ [][CallOf({"close"}) =>
             /\ ~raised'
             /\ writer = "open" => sent' = Append(sent, Wire("QUIT", <<"bye">>))
             /\ writer = "closed" => sent' = sent]_vars

\* close() was called twice on a connected manager (the debug echo shows both
\* calls) and one QUIT was transmitted.
C12_Witness ==
    /\ call.op = "close"
    /\ ~raised
    /\ writer = "closed"
    /\ Count(events, IsQuitEcho) = 2
    /\ Count(sent, IsQuit) = 1

\* C16: once connect() has succeeded, the first three lines transmitted are
\* CAP LS 302, NICK <nick> and USER <user> 0 * :<realname>, in this order, and
\* no line is transmitted or received before.
C16_RegistrationFirst ==
    (writer # "none" \/ sent # << >> \/ nrecv > 0) =>
        /\ Len(sent) >= 3
        /\ sent[1] = Wire("CAP LS 302", << >>)
        /\ sent[2] = Wire("NICK", <<"PeachUser">>)
        /\ sent[3] = Wire("USER", <<"peach", "0", "*", "Peach Client">>)

\* A line was received and answered after the three lines of connect().
C16_Witness == nrecv > 0 /\ Len(sent) > 3 /\ call.op = "connect"

\* C17: while the manager has no transport nothing is transmitted and no
\* command raises (only a failed connect() does).
C17_NothingWithoutTransport ==
    writer = "none" => (sent = << >> /\ (raised => call.op = "connect"))

\* Commands were called without a transport: the last one was monitor_add, which
\* tracked its nick.
C17_Witness ==
    /\ writer = "none"
    /\ ncalls >= 2
    /\ call.op = "monitor_add"
    /\ monitor = {"x"}
    /\ sent = << >>

\* The commands that transmit.
TransmitOps ==
    {"join", "part", "set_topic", "set_modes", "send_privmsg", "monitor_set",
     "monitor_add", "monitor_remove"}

\* C18: a command called while the transport fails its writes does not raise,
\* transmits nothing, and (for a command that writes whatever its arguments)
\* reports the failure as a status event.
C18_WriteFailureSwallowed ==
    [][(CallOf(TransmitOps) /\ writer \in {"closed", "lost"}) =>
          /\ ~raised'
          /\ sent' = sent
          /\ call'.op \in {"set_topic", "set_modes", "send_privmsg"} =>
                (~debug => (Len(events') = Len(events) + 1 /\ Last(events').ev = "status"))]_vars

\* The command word of each channel command.
WordOf(op) ==
    CASE op = "join" -> "JOIN"
      [] op = "part" -> "PART"
      [] op = "set_topic" -> "TOPIC"
      [] op = "set_modes" -> "MODE"
      [] op = "send_privmsg" -> "PRIVMSG"

\* C19: on a connected manager join, part, set_topic, set_modes and send_privmsg
\* transmit nothing when the channel is empty after trimming, and otherwise
\* exactly one line, built from the trimmed channel.
C19_TrimmedChannelOrNothing ==
    [][(CallOf({"join", "part", "set_topic", "set_modes", "send_privmsg"}) /\ writer = "open") =>
          IF Strip(call'.args[1]) = "" THEN sent' = sent
          ELSE /\ Len(sent') = Len(sent) + 1
               /\ SubSeq(sent', 1, Len(sent)) = sent
               /\ Last(sent').cmd = WordOf(call'.op)
               /\ Last(sent').arg[1] = Strip(call'.args[1])]_vars

IsDisconnected(e) == e = Ev("status", <<"disconnected">>)
IsSendEcho(e) == e.ev = "status" /\ e.val[1] = ">>"

\* The step is not a call of the caller.
NoCallStep == ncalls' = ncalls /\ call' = call

\* The read loop stays ended and, once it has ended, only the caller's commands
\* transmit.
EndedForGood ==
    [][loop = "ended" => (loop' = "ended" /\ (sent' # sent => CallOf(TransmitOps \cup {"close"})))]_vars

-----------------------------------------------------------------------------
(* Properties of the dispatch of received lines (SpecDispatch).            *)

\* The step handles one more received line.
Received == nrecv' = nrecv + 1

\* The events the step adds.
NewEvents == SubSeq(events', Len(events) + 1, Len(events'))

\* The command or numeric of l has no handler of its own.
Unhandled(l) == Upper(Cmd(l.toks)).w \notin (HandledCmds \cup {"PING"})

\* C13: every received line whose command or numeric has no dedicated handler
\* gives the consumer a status event, with the debug echo on or off.
C13_UnknownLinesReachStatus ==
    [][(Received /\ Unhandled(line')) =>
          \E i \in DOMAIN NewEvents : NewEvents[i].ev = "status"]_vars

\* The line is a PING, after its tag block and prefix if any.
IsPingLine(l) == Cmd(l.toks) = T("PING")

\* The payload of a PING line: what follows the command.
PingPayload(l) == LET ps == Params(l.toks) IN [i \in DOMAIN ps |-> Raw(ps[i])]

\* C14: every received PING line, tagged or not, prefixed or not, makes the
\* client transmit exactly one PONG with the PING's payload; it gives the
\* consumer no event (the debug echo aside) and changes nothing else.
C14_PongEchoesPayload ==
    [][(Received /\ IsPingLine(line')) =>
          /\ sent' = Append(sent, Wire("PONG", PingPayload(line')))
          /\ ~debug => events' = events
          /\ UNCHANGED <<writer, loop, monitor, stop>>
          /\ UNCHANGED capVars
          /\ UNCHANGED aggVars]_vars

IsLabeledFor(l, e) ==
    e = Ev("labeled", <<l.tags.label, Cmd(l.toks), Params(l.toks), l.tags>>)

\* C15: with a labeled listener, every received line with a non-empty label
\* tag gives exactly one labeled event (label, command, params, tags),
\* whatever its command (PING, which is never forwarded, aside).
C15_LabeledForEveryLabelledLine ==
    [][(Received /\ line'.tags.label # "" /\ on.labeled # "none" /\ ~IsPingLine(line')) =>
          Cardinality({i \in DOMAIN NewEvents : IsLabeledFor(line', NewEvents[i])}) = 1]_vars

-----------------------------------------------------------------------------
(* Properties of the read loop on any line (SpecRobust).                   *)

\* C21: no received line ends the read loop: whatever the line holds, and with
\* listeners that raise, the loop is running after the line as long as the
\* transport is open and close() was not called.
C21_NoLineEndsTheLoop ==
    [][(Received /\ writer = "open" /\ writer' = "open" /\ ~stop) => loop' = "running"]_vars

-----------------------------------------------------------------------------
(* Properties of close() and of connecting again (SpecSession).            *)

\* The negotiation and aggregation state is as __init__ made it.
StateIsInitial ==
    /\ available_caps = {}
    /\ requested_caps = {}
    /\ active_caps = {}
    /\ ~cap_ended
    /\ ~welcome_received
    /\ ~cap_ls_pending
    /\ ~sasl_in_progress
    /\ ~sasl_payload_sent
    /\ whois_buf = << >>
    /\ batches = << >>
    /\ batch_names = << >>

\* C22: after close() the capability sets and flags, the welcome flag, the SASL
\* flags, the WHOIS accumulators and the batch buffers have their initial
\* values, and they still have them when connect() is called again.
C22_CloseDiscardsState ==
    [][(CallOf({"close"}) \/ (writer \in {"closed", "lost"} /\ writer' = "open"))
          => StateIsInitial']_vars

-----------------------------------------------------------------------------
(* Properties of SASL against an answering server (SpecAuth).              *)

\* The SASL result numerics that report a failure or an abort.
SaslFailures == {"904", "905", "906", "907"}

\* The debug echo of a transmitted or a received line.
IsDebugEcho(e) == e.ev = "status" /\ e.val[1] \in {">>", "<<"}

\* C23: a SASL failure numeric received during negotiation makes the client
\* transmit CAP END (and nothing but CAP END and the initial JOINs), leaves the
\* read loop running and the transport open, and reaches the consumer as one
\* status event and no other event (the debug echo aside); commands called
\* afterwards are still transmitted and do not raise.
C23_SaslFailureKeepsConnection ==
    /\ [][(Received /\ Cmd(line'.toks).w \in SaslFailures /\ ~cap_ended) =>
             /\ Written # << >>
             /\ IsCapEnd(Written[1])
             /\ \A i \in 2..Len(Written) : IsJoin(Written[i])
             /\ loop' = "running"
             /\ writer' = "open"
             /\ SelectSeq(NewEvents, LAMBDA e : ~IsDebugEcho(e))
                   = <<Ev("status", <<"SASL result", Cmd(line'.toks).w>>)>>]_vars
    /\ [][(CallOf({"join"}) /\ seen \cap SaslFailures # {}) =>
             /\ sent' = Append(sent, Wire("JOIN", <<Strip(call'.args[1])>>))
             /\ ~raised']_vars

\* The SASL exchange failed with 905, CAP END went out, and a join called
\* afterwards was transmitted with the read loop still running.
C23_Witness ==
    /\ "905" \in seen
    /\ Count(sent, IsCapEnd) = 1
    /\ call = Call("join", <<"#a">>)
    /\ Last(sent) = Wire("JOIN", <<"#a">>)
    /\ loop = "running"
    /\ ~raised

-----------------------------------------------------------------------------
(* Concurrent commands (SpecConc).                                         *)

\* The lines of task id stand next to each other in what was written.
Contiguous(id) ==
    \A i \in 1..(Len(tasks[id].at) - 1) : tasks[id].at[i + 1] = tasks[id].at[i] + 1

\* C24: commands issued from concurrent tasks are serialised: the lines of
\* one command (MONITOR C and the MONITOR + of one monitor_set, the JOIN
\* lines of the initial join) are never interleaved with another command's.
C24_CommandsSerialised == \A id \in TaskIds : Contiguous(id)

-----------------------------------------------------------------------------
(* The SASL payload (SpecPayload).                                         *)

\* Whether an optional field of the profile is set.
Given(x) == x # NoneVal /\ x # ""

\* RFC 4648 base64 of (NUL, authcid, NUL, password).
PlainB64(authcid, password) ==
    CASE authcid = "su" /\ password = "pw" -> "AHN1AHB3"
      [] authcid = "su" /\ password = "p" -> "AHN1AHA="
      [] authcid = "peach" /\ password = "pw" -> "AHBlYWNoAHB3"
      [] authcid = "peach" /\ password = "p" -> "AHBlYWNoAHA="
      [] authcid = "PeachUser" /\ password = "pw" -> "AFBlYWNoVXNlcgBwdw=="
      [] authcid = "PeachUser" /\ password = "p" -> "AFBlYWNoVXNlcgBw"
      [] OTHER -> ""

\* C25: the SASL payload line is AUTHENTICATE followed by the base64 encoding
\* of (empty authzid, NUL, authcid, NUL, password), authcid being the profile's
\* sasl_user when set, otherwise its user, otherwise its nick; the part after
\* the space is never empty.
C25_SaslPayloadFormat ==
    \A i \in DOMAIN sent :
        (sent[i].cmd = "AUTHENTICATE" /\ sent[i] # Wire("AUTHENTICATE", <<"PLAIN">>)) =>
            /\ Len(sent[i].arg) = 1
            /\ sent[i].arg[1] # ""
            /\ sent[i].arg[1] =
                  PlainB64(IF Given(p.sasl_user) THEN p.sasl_user
                           ELSE IF Given(p.user) THEN p.user ELSE p.nick,
                           p.password)

\* The payload of a profile with an empty sasl_user and an empty user is on
\* the wire: it carries the nick.
C25_Witness ==
    /\ p.sasl_user = ""
    /\ p.user = ""
    /\ \E i \in DOMAIN sent : sent[i] = Wire("AUTHENTICATE", <<"AFBlYWNoVXNlcgBwdw==">>)

-----------------------------------------------------------------------------
(* has_cap (SpecAck).                                                      *)

\* A CAP ACK line: ":s CAP <target> ACK <capability list>".
IsCapAck(l) ==
    /\ Cmd(l.toks) = T("CAP")
    /\ Len(Params(l.toks)) >= 3
    /\ Params(l.toks)[2].w = "ACK"

\* The names in the payload of a CAP ACK line: the words of its last
\* parameter, which is the text after " :" or, without one, the last word.
AckNames(l) ==
    LET r == Rest(l.toks)
    IN IF TrailIdx(r) # 0 THEN {r[i].w : i \in TrailIdx(r)..Len(r)} \ {""}
       ELSE {Last(r).w}

\* C26: has_cap(name) is false for every name on a new manager and is later
\* true exactly for the names that appeared in the payload of some CAP ACK
\* received so far; names only advertised, requested or rejected are not
\* reported.
C26_HasCapIsAcked ==
    /\ \A name \in Range(CapOrder) : ~has_cap(name)
    /\ [][\A name \in Range(CapOrder) :
             has_cap(name)' <=>
                 (has_cap(name) \/ (Received /\ IsCapAck(line') /\ name \in AckNames(line')))]_vars

-----------------------------------------------------------------------------
(* The timestamp of a message (SpecTime).                                  *)

\* The instant an RFC 3339 date-time denotes, as epoch seconds and
\* milliseconds; << >> for a text that is none.
Rfc3339(t) ==
    CASE t = "2023-10-11T12:34:56.789Z" -> <<Instant(1697027696, 789)>>
      [] t = "2023-10-11T14:34:56.789+02:00" -> <<Instant(1697027696, 789)>>
      [] t = "1970-01-01T00:00:00.000Z" -> <<Instant(0, 0)>>
      [] t = "1969-12-31T23:59:59Z" -> <<Instant(-1, 0)>>
      [] OTHER -> << >>

\* C27: for every PRIVMSG whose time tag parses as an RFC 3339 instant the
\* message event's timestamp is that instant; when the tag is absent or does
\* not parse, the derivation yields no value and the event carries the
\* receive time.
C27_MessageTimestamp ==
    [][(Received /\ Cmd(line'.toks) = T("PRIVMSG") /\ TrailIdx(line'.toks) # 0
           /\ on.message # "none") =>
          LET msgs == SelectSeq(NewEvents, LAMBDA e : e.ev = "message")
              inst == Rfc3339(line'.tags.time)
          IN /\ Len(msgs) = 1
             /\ inst # << >> => msgs[1].val[4] = inst[1]
             /\ inst = << >> => (TsFromTags(line'.tags) = << >> /\ msgs[1].val[4] = ReceiveTime)]_vars

-----------------------------------------------------------------------------
(* The debug echo of AUTHENTICATE lines (SpecAuth).                        *)

\* The line starts with the literal "AUTHENTICATE ".
StartsWithAuthLiteral(w) == w.cmd = "AUTHENTICATE" /\ w.arg # << >>

\* The line contains the literal "AUTHENTICATE ", at its start or in a word
\* of its arguments.
ContainsAuthLiteral(w) ==
    \/ StartsWithAuthLiteral(w)
    \/ \E i \in DOMAIN w.arg : w.arg[i] = "AUTHENTICATE abc"

Hidden == Ev("status", <<">>", Wire("AUTHENTICATE", <<"<hidden>">>)>>)

\* The echoes of transmitted lines among the events of this step.
NewEchoes == SelectSeq(NewEvents, LAMBDA e : e.ev = "status" /\ e.val[1] = ">>")

\* The base64 credential string stands in no status event.
CredentialUnseen ==
    \A i \in DOMAIN events :
        events[i].ev = "status" =>
            LET val == events[i].val
            IN CASE val[1] = ">>" -> SaslPayload.arg[1] \notin Range(val[2].arg)
                 [] val[1] = "<<" -> \A k \in DOMAIN val[2].toks :
                                        val[2].toks[k].w # SaslPayload.arg[1]
                 [] OTHER -> \A k \in DOMAIN val : val[k] # SaslPayload.arg[1]

\* C28 as stated: with the debug echo enabled, the echo of every transmitted
\* line that contains the literal "AUTHENTICATE " is redacted, and the base64
\* credential string appears in no status event.
C28_ContainingLinesRedacted ==
    /\ [][debug =>
            /\ Len(NewEchoes) = Len(Written)
            /\ \A i \in DOMAIN Written :
                  ContainsAuthLiteral(Written[i]) => NewEchoes[i] = Hidden]_vars
    /\ []CredentialUnseen

\* C28 amended: with the debug echo enabled, the echo of every transmitted
\* line that starts with the literal "AUTHENTICATE " is "AUTHENTICATE
\* <hidden>", every other line is echoed as it is, and the base64 credential
\* string appears in no status event.
C28_AuthenticateLinesRedacted ==
    /\ [][debug =>
            /\ Len(NewEchoes) = Len(Written)
            /\ \A i \in DOMAIN Written :
                  NewEchoes[i] = IF StartsWithAuthLiteral(Written[i]) THEN Hidden
                                 ELSE Ev("status", <<">>", Written[i]>>)]_vars
    /\ []CredentialUnseen

\* The SASL payload was just transmitted with the debug echo on, and its
\* echo is "AUTHENTICATE <hidden>".
C28_Witness ==
    /\ debug
    /\ sent # << >>
    /\ Last(sent) = SaslPayload
    /\ Last(events) = Hidden

-----------------------------------------------------------------------------
(* After CAP END (SpecNeg).                                                *)

\* C29: Ended is terminal: once CAP END has been transmitted, no CAP REQ,
\* AUTHENTICATE PLAIN or AUTHENTICATE payload line is transmitted any more,
\* whatever CAP LS, ACK, NAK or AUTHENTICATE lines are received afterwards.
C29_EndedIsTerminal ==
    [][(\E i \in DOMAIN sent : IsCapEnd(sent[i])) =>
          \A j \in DOMAIN Written : ~IsCapReq(Written[j]) /\ ~IsAuthenticate(Written[j])]_vars

\* C30: once CAP END has been transmitted, the active capability set (the
\* answers of has_cap) never changes again, whatever CAP lines are received.
C30_ActiveFrozenAfterCapEnd ==
    [][(\E i \in DOMAIN sent : IsCapEnd(sent[i])) =>
          \A name \in Range(CapOrder) : has_cap(name)' <=> has_cap(name)]_vars

-----------------------------------------------------------------------------
(* The capabilities requested (SpecNeg).                                   *)

\* The capabilities the client asks for besides sasl.
Desired ==
    {"server-time", "message-tags", "echo-message", "account-notify",
     "away-notify", "chghost", "setname", "batch", "labeled-response",
     "multi-prefix"}

\* Every CAP REQ transmitted in this step lists, in sorted order, the
\* advertised capabilities among Desired, and sasl exactly when it was
\* advertised and withSasl holds.
RequestIs(withSasl) ==
    \A j \in DOMAIN Written :
        IsCapReq(Written[j]) =>
            Written[j].arg =
                SortCaps((Desired \cup (IF withSasl THEN {"sasl"} ELSE {}))
                         \cap available_caps')

\* C31 as stated: the transmitted CAP REQ contains sasl exactly when the
\* server advertised sasl and the profile has a password or a sasl_user
\* (either one suffices); the other requested capabilities are exactly the
\* advertised ones among the ten desired.
C31_RequestWithSaslOnCredentials == [][RequestIs(HasCredentials)]_vars

\* C31 amended: the transmitted CAP REQ contains sasl exactly when the server
\* advertised sasl and the profile has a non-empty password; a sasl_user
\* without a password does not suffice. The other requested capabilities
\* are exactly the advertised ones among the ten desired.
C31_RequestWithSaslOnPassword ==
    [][RequestIs(p.password # NoneVal /\ p.password # "")]_vars

\* A profile with a sasl_user and no password was offered sasl and requested
\* the other advertised capability only.
C31_Witness ==
    /\ p.password = NoneVal
    /\ p.sasl_user = "su"
    /\ "sasl" \in available_caps
    /\ \E i \in DOMAIN sent : sent[i] = Wire("CAP REQ", <<"server-time">>)

-----------------------------------------------------------------------------
(* The SASL payload is sent once, on request, during SASL (SpecNeg).       *)

\* wire holds AUTHENTICATE PLAIN and no payload after the last one.
PayloadOutstanding(wire) ==
    \E i \in DOMAIN wire :
        /\ IsAuthPlain(wire[i])
        /\ \A k \in (i + 1)..Len(wire) : ~IsAuthPlain(wire[k]) /\ ~IsAuthPayload(wire[k])

\* C32: an AUTHENTICATE payload line is transmitted only in response to a
\* received AUTHENTICATE + while SASL is in progress (it begins when
\* AUTHENTICATE PLAIN is sent and ends with any of 903-907), and at most once
\* per attempt: a second AUTHENTICATE +, or one arriving after the result
\* numeric, transmits nothing.
C32_PayloadOncePerAttempt ==
    /\ [][(sasl_in_progress' /\ ~sasl_in_progress) =>
             \E j \in DOMAIN Written : IsAuthPlain(Written[j])]_vars
    /\ [][(Received /\ Cmd(line'.toks) \in {T(num) : num \in {"903", "904", "905", "906", "907"}})
             => ~sasl_in_progress']_vars
    /\ [][(\E j \in DOMAIN Written : IsAuthPayload(Written[j])) =>
             /\ Received
             /\ line' = Untagged(<<T("AUTHENTICATE"), T("+")>>)
             /\ sasl_in_progress
             /\ Count(Written, IsAuthPayload) = 1
             /\ PayloadOutstanding(sent)]_vars

\* The payload went out once; an AUTHENTICATE + that arrived after the result
\* numeric and the CAP END it caused transmitted nothing.
C32_Witness ==
    /\ Count(sent, IsAuthPayload) = 1
    /\ "903" \in seen
    /\ line = Untagged(<<T("AUTHENTICATE"), T("+")>>)
    /\ IsCapEnd(Last(sent))

-----------------------------------------------------------------------------
(* Multi-line CAP LS (SpecNeg).                                            *)

\* A CAP LS line that carries the continuation marker: ":s CAP * LS * :caps".
IsLsContinued(l) ==
    /\ Cmd(l.toks) = T("CAP")
    /\ Len(Params(l.toks)) >= 4
    /\ Params(l.toks)[2] = T("LS")
    /\ Params(l.toks)[3] = T("*")

\* C33: when a CAP LS line carries the continuation marker, the negotiator
\* waits for the final LS line: handling the marked line transmits neither
\* CAP REQ nor CAP END.
C33_WaitsForFinalLS ==
    [][(Received /\ IsLsContinued(line')) =>
          \A j \in DOMAIN Written : ~IsCapReq(Written[j]) /\ ~IsCapEnd(Written[j])]_vars

-----------------------------------------------------------------------------
(* monitor_set (SpecMonitor).                                              *)

\* The trimmed, non-empty nicks among those given.
GivenNicks(nicks) == {Strip(nicks[i]) : i \in DOMAIN nicks} \ {""}

\* The line is MONITOR + listing each nick of S once.
IsMonitorPlus(w, S) ==
    /\ w.cmd = "MONITOR"
    /\ Len(w.arg) > 1
    /\ w.arg[1] = "+"
    /\ {w.arg[i] : i \in 2..Len(w.arg)} = S
    /\ \A i, j \in 2..Len(w.arg) : w.arg[i] = w.arg[j] => i = j

\* C34: monitor_set(nicks) on a connected manager transmits MONITOR C first
\* and then, when the new set is non-empty, exactly one MONITOR + line listing
\* the whole new set; afterwards the tracked set is exactly the trimmed,
\* non-empty nicks given, whatever was tracked before.
C34_MonitorSetReplaces ==
    [][(CallOf({"monitor_set"}) /\ writer = "open") =>
          LET new == GivenNicks(call'.args)
          IN /\ Written # << >>
             /\ Written[1] = Wire("MONITOR", <<"C">>)
             /\ IF new = {} THEN Len(Written) = 1
                ELSE Len(Written) = 2 /\ IsMonitorPlus(Written[2], new)
             /\ monitor' = new
             /\ ~raised']_vars

\* x and y were tracked and transmitted; monitor_set([" z ", ""]) then sent
\* MONITOR C and MONITOR + z and left z alone tracked.
C34_Witness ==
    /\ call = Call("monitor_set", <<" z ", "">>)
    /\ monitor = {"z"}
    /\ Len(sent) > 2
    /\ sent[Len(sent) - 1] = Wire("MONITOR", <<"C">>)
    /\ Last(sent) = Wire("MONITOR", <<"+", "z">>)
    /\ \E i \in DOMAIN sent : sent[i] = Wire("MONITOR", <<"+", "x", "y">>)

-----------------------------------------------------------------------------
(* Commands after the connection has ended (SpecCmd).                      *)

\* C35: send is a no-op once the connection has ended: after close() has
\* completed, or after the read loop has reported "disconnected", join, part,
\* set_topic, set_modes, send_privmsg and the monitor commands write nothing
\* to the transport and do not raise.
C35_NoOpAfterDisconnect ==
    [][(CallOf(TransmitOps)
          /\ (writer = "closed" \/ (loop = "ended" /\ writer = "lost"))) =>
          (sent' = sent /\ ~raised')]_vars

-----------------------------------------------------------------------------
(* The initial JOINs (SpecNeg).                                            *)

\* C36: the automatic initial JOIN sequence is performed at most once per
\* connection: no later received line makes the manager transmit the initial
\* JOINs again.
C36_InitialJoinOnce == Count(sent, IsJoin) <= Len(p.channels)

-----------------------------------------------------------------------------
(* The tracked set and the MONITOR lines transmitted (SpecMonitor).        *)

\* The set a server holds after the lines of wire: MONITOR C empties it,
\* MONITOR + adds the listed nicks, MONITOR - removes them.
RECURSIVE Replay(_)
Replay(wire) ==
    IF wire = << >> THEN {}
    ELSE LET w == Last(wire)
             before == Replay(SubSeq(wire, 1, Len(wire) - 1))
             nicks == {w.arg[i] : i \in 2..Len(w.arg)}
         IN IF w.cmd # "MONITOR" \/ w.arg = << >> THEN before
            ELSE CASE w.arg[1] = "C" -> {}
                   [] w.arg[1] = "+" -> before \cup nicks
                   [] w.arg[1] = "-" -> before \ nicks
                   [] OTHER -> before

\* C37: after any sequence of monitor_set, monitor_add and monitor_remove
\* calls, issued before connect or while connected, the tracked monitor set
\* equals the set obtained by replaying the MONITOR lines that were
\* transmitted.
C37_TrackedIsReplay == monitor = Replay(sent)

-----------------------------------------------------------------------------
(* The NAMES buffers (SpecBatch).                                          *)

\* C39: a NAMES buffer exists only for a batch that is currently open: the
\* batch ids with buffered 353 names are among the ids opened by BATCH +id
\* and not yet closed by BATCH -id.
C39_BufferOnlyForOpenBatch ==
    {bid \in DOMAIN batch_names : batch_names[bid] # << >>} \subseteq DOMAIN batches

-----------------------------------------------------------------------------
(* The frame of the channel commands (SpecFrame).                          *)

\* C38: join, part, set_topic, set_modes and send_privmsg leave all
\* negotiation and aggregation state unchanged: the capability sets, the
\* ended and welcome flags, the SASL flags, the WHOIS accumulators, the
\* batch buffers and the tracked monitor set.
C38_CommandsKeepState ==
    [][CallOf({"join", "part", "set_topic", "set_modes", "send_privmsg"}) =>
          /\ available_caps' = available_caps
          /\ requested_caps' = requested_caps
          /\ active_caps' = active_caps
          /\ cap_ended' = cap_ended
          /\ welcome_received' = welcome_received
          /\ cap_negotiating' = cap_negotiating
          /\ cap_ls_pending' = cap_ls_pending
          /\ sasl_in_progress' = sasl_in_progress
          /\ sasl_payload_sent' = sasl_payload_sent
          /\ whois_buf' = whois_buf
          /\ batches' = batches
          /\ batch_names' = batch_names
          /\ monitor' = monitor]_vars

\* send_privmsg was called with sasl and batch acknowledged and SASL in
\* progress, WHOIS fields and batched names buffered, and x tracked.
C38_Witness ==
    /\ call.op = "send_privmsg"
    /\ ~raised
    /\ sent # << >>
    /\ Last(sent) = Wire("PRIVMSG", <<"#a", "hi">>)
    /\ active_caps = {"sasl", "batch"}
    /\ sasl_in_progress
    /\ DOMAIN whois_buf # {}
    /\ DOMAIN batch_names # {}
    /\ monitor = {"x"}
=========================================================================
